---- MODULE Spec2Model ----
(***************************************************************************)
(* Administrative scripts of the DineAI-POS repository:                    *)
(*   - clear_firebase_menu.py : prune the remote document store            *)
(*   - extract_from_backup.py, simple_tablet_backup.py,                    *)
(*     extract_tablet_data.py : read the tables of a database into the     *)
(*     manifest and generate the restore scripts                           *)
(*   - scripts/restore_categories.py, scripts/restore_all_data.py and the  *)
(*     generated menu-items script : replay the captured rows              *)
(* Every script is one sequential process.  Each has its own variables and *)
(* its own specification (SpecPrune, SpecExtract, SpecRestore); the        *)
(* variables of the other scripts stay at their idle values.               *)
(***************************************************************************)
EXTENDS Integers, Sequences, FiniteSets, TLC

VARIABLES
    (* ---- clear_firebase_menu.py ---- *)
    prPc,                  \* position in main / clear_firebase_menu
    args,                  \* parsed command line: [tenant, confirm, keep]
    tenantExists,          \* whether tenants/<tenant> exists in the store
    catStore,              \* category documents: id -> name field (or Missing)
    itemStore,             \* item documents: id -> categoryId field (or Missing)
    keep_categories,       \* the keep-list K inside clear_firebase_menu
    categories,            \* snapshot list of line 59: id -> name field
    categories_to_delete,  \* ids still to be processed by the loop of line 76
    kept_categories,       \* ids appended at line 68
    cat,                   \* loop variable of line 76 (NoDoc outside the loop)
    items_in_category,     \* result of the query of line 82, not yet deleted
    orphaned_items,        \* list of line 99, not yet deleted
    deleted_categories,    \* counter of line 52
    deleted_menu_items,    \* counter of line 53
    storeReads,            \* number of read calls made against the store
    storeDeletes,          \* number of delete calls made against the store
    storeRejects,          \* number of delete calls the store rejected
    success,               \* return value of clear_firebase_menu ("True"/"False")
    exitStatus,            \* process exit status of main
    (* ---- extract_from_backup.py and its two variants ---- *)
    exPc,                  \* position in the extraction run
    variant,               \* which of the three extraction programs runs
    srcExists,             \* extract_from_backup: the backup file exists
    device,                \* pull candidates the tablet delivers
    candIdx,               \* pull candidates tried so far
    lastPull,              \* the last adb pull: file name, location, result
    db_path,               \* the database file the run reads
    exConn,                \* the run's connection: "none", "open" or "closed"
    written,               \* files written into the backup directory, in order
    readme,                \* the table lines of README.md
    summary,               \* the totals printed after the README is written
    exReport,              \* what main printed after the run
    srcTables,             \* the source database: its tables in sqlite_master order
    tables,                \* cursor.fetchall() of the table-name query
    tableIdx,              \* number of tables the loop has processed
    extracted_data,        \* the manifest: table name -> entry
    manifestFile,          \* content of data/extracted_data.json (Unset: not written)
    exResult,              \* return value of the extraction run
    (* ---- restore-script generator and the generated restore scripts ---- *)
    rsPc,                  \* "generate", "ready" (no run in progress) or "running"
    generator,             \* which script is generated, by which extractor
    captured,              \* manifest entry of the captured table
    clock,                 \* wall-clock time, advanced by every generation and run
    scripts,               \* script contents written so far, oldest first
    dest,                  \* destination table as the open connection sees it: key -> row
    destFile,              \* destination table as committed to the database file
    rsConn,                \* the run's connection: "none", "open" or "closed"
    interrupted,           \* runs that ended after connecting without a commit
    destHistory,           \* destFile before the first run and after every run
    rowList,               \* the row list the running script iterates
    rowIdx,                \* rows the running script has processed
    executed,              \* insert-or-replace statements executed by the last run
    uuidCount,             \* uuid4() values drawn so far
    nextRowid,             \* rowid the destination gives the next unkeyed row
    runs,                  \* script executions ended so far
    outcome,               \* how the last execution ended
    (* ---- add_categories_script.py ---- *)
    sdPc,                  \* position in the seeding script
    dbFileFound,           \* find_database_file finds a database file
    seedSchema,            \* what the database file holds (see SeedSchemas)
    response,              \* the operator's answer to the prompt
    seedList,              \* create_categories(): the categories to insert
    seedIdx,               \* categories the insert loop has processed
    seedRows,              \* categories table as the open connection sees it
    seedFile,              \* categories table as committed to the database file
    seedConn,              \* the run's connection: "none", "open" or "closed"
    seedConnects,          \* sqlite3.connect calls made
    added,                 \* categories the run printed as added
    seedResult,            \* outcome of add_categories_to_database
    seedReport,            \* what main printed after the import
    seedRuns,              \* runs of the script ended so far
    seedClock              \* wall-clock time of the seeding runs

prVars == <<prPc, args, tenantExists, catStore, itemStore, keep_categories,
            categories, categories_to_delete, kept_categories, cat,
            items_in_category, orphaned_items, deleted_categories,
            deleted_menu_items, storeReads, storeDeletes, storeRejects,
            success, exitStatus>>

exVars == <<exPc, variant, srcExists, device, candIdx, lastPull, db_path, exConn,
            srcTables, tables, tableIdx, extracted_data, manifestFile,
            written, readme, summary, exReport, exResult>>

rsVars == <<rsPc, generator, captured, clock, scripts, dest, destFile, rsConn, interrupted, destHistory, rowList,
            rowIdx, executed, uuidCount, nextRowid, runs, outcome>>

sdVars == <<sdPc, dbFileFound, seedSchema, response, seedList, seedIdx, seedRows,
            seedFile, seedConn, seedConnects, added, seedResult, seedReport,
            seedRuns, seedClock>>

vars == <<prVars, exVars, rsVars, sdVars>>

(***************************************************************************)
(* Bounds of the model.                                                    *)
(***************************************************************************)
MaxCats  == 2      \* category documents in the store
MaxItems == 2      \* item documents in the store
MaxTables == 2     \* tables in the source database
MaxSrcRows == 2    \* rows in one source table
MaxRows == 2       \* rows of the captured table handed to the generator
MaxGenerations == 2  \* invocations of the generator on the same data
MaxRuns == 2       \* executions of a generated script
MaxSeed == 2       \* categories the seeding script inserts
MaxSeedRuns == 2   \* runs of the seeding script

(***************************************************************************)
(* Values.                                                                 *)
(***************************************************************************)
Missing == "<missing>"     \* a field that the document does not carry
NoDoc   == "<none>"        \* no document / Python None for a local variable
Unset   == "<unset>"       \* a variable not assigned yet
None    == "<None>"        \* Python None: an SQL NULL read from or bound to a column
NotExited == -1            \* exit status of a process that has not exited

\* dict.get(key, default) on a document: the stored value, or the default
\* when the field is missing.
FieldOr(value, default) == IF value = Missing THEN default ELSE value

\* A finite function as the restriction of f to the keys in S.
Restrict(f, S) == [k \in S |-> f[k]]

(***************************************************************************)
(* Python values shared by the extraction and restore scripts.             *)
(***************************************************************************)
\* The elements of a sequence.
Range(seq) == {seq[i] : i \in 1..Len(seq)}

\* Mutant of Zip: the values are taken from the row tuple back to front.
ZipMutant(columns, row) ==
    [c \in Range(columns) |->
        row[Len(row) + 1 - (CHOOSE i \in 1..Len(columns) : columns[i] = c)]]

\* dict(zip(columns, row)): the value of the last position that carries the
\* column name.
Zip(columns, row) ==
    [c \in Range(columns) |->
        row[CHOOSE i \in 1..Len(columns) :
                /\ columns[i] = c
                /\ i <= Len(row)
                /\ \A j \in (i+1)..Len(columns) : columns[j] # c \/ j > Len(row)]]

\* Text values that hold a character outside the Basic Multilingual Plane
\* (the emoji icons of the categories).
\* list(dict(zip(columns, row))): the keys in insertion order, a key keeping
\* the place of its first occurrence; zip stops at the shorter argument.
RECURSIVE DictKeys(_, _)
DictKeys(columns, row) ==
    IF columns = <<>> \/ row = <<>>
    THEN <<>>
    ELSE LET n == IF Len(columns) <= Len(row) THEN Len(columns) ELSE Len(row)
             before == DictKeys(SubSeq(columns, 1, n - 1), SubSeq(row, 1, n - 1))
         IN  IF columns[n] \in Range(before)
             THEN before
             ELSE Append(before, columns[n])

AstralTexts == {"icon_emoji"}

\* json.dump / json.dumps of one scalar (ensure_ascii is on): None is written
\* as the word null, a character outside the BMP as a pair of surrogate
\* escapes, anything else as its JSON literal.
JsonScalar(v) ==
    IF v = None THEN <<"null">>
    ELSE IF v \in AstralTexts THEN <<"escaped", v>>
    ELSE <<"literal", v>>

\* json.load of one scalar: null is None, escapes are decoded.
JsonLoadScalar(token) == IF token = <<"null">> THEN None ELSE token[2]

JsonRow(row) == [c \in DOMAIN row |-> JsonScalar(row[c])]
JsonRows(rows) == [i \in 1..Len(rows) |-> JsonRow(rows[i])]
JsonLoadRow(jrow) == [c \in DOMAIN jrow |-> JsonLoadScalar(jrow[c])]
JsonLoadRows(jrows) == [i \in 1..Len(jrows) |-> JsonLoadRow(jrows[i])]

\* json.dump(extracted_data, f, indent=2, default=str): every entry with the
\* scalars of its rows written as JSON.
JsonManifest(data) ==
    [t \in DOMAIN data |-> [data[t] EXCEPT !.data = JsonRows(data[t].data)]]

\* json.load of the manifest file.
JsonLoadManifest(file) ==
    [t \in DOMAIN file |-> [file[t] EXCEPT !.data = JsonLoadRows(file[t].data)]]

(***************************************************************************)
(* extract_from_backup.py (lines 41-114); simple_tablet_backup.py (lines   *)
(* 70-143) and TabletDataExtractor.extract_data_from_database (lines       *)
(* 116-171 of extract_tablet_data.py) run the same table loop.             *)
(***************************************************************************)
TableNames == {"categories", "menu_items", "orders"}
NoError == "<no error>"
\* str(e) of the sqlite3 error a failing read raises.
ReadErrors == {"no such column: id"}

SrcColumns == <<"id", "name">>
SrcRowValues == <<<<"cat_1", "Soups">>, <<"cat_2", None>>>>
\* The row lists of a table: the first n rows of the table, the rows taking
\* the row values in turn.
SrcRowLists ==
    {[i \in 1..n |-> SrcRowValues[((i - 1) % Len(SrcRowValues)) + 1]] : n \in 0..MaxSrcRows}

\* A row of a table with a generated column between id and name: PRAGMA
\* table_info leaves the generated column out, SELECT * returns its value.
GeneratedRow == <<"cat_1", "generated", "Soups">>

\* A table of the source database: its name, PRAGMA table_info column list,
\* rows in SELECT * order, and whether reading it raises.
SrcTableSet ==
    [name : TableNames, columns : {SrcColumns}, rows : SrcRowLists, raises : {NoError}]
    \cup
    [name : TableNames, columns : {SrcColumns}, rows : {<<GeneratedRow>>},
     raises : {NoError}]
    \cup
    [name : TableNames, columns : {SrcColumns}, rows : {<<<<"cat_1", "Soups">>>>},
     raises : ReadErrors]

\* sqlite_master lists every table once.
SrcDatabases ==
    UNION {{db \in [1..n -> SrcTableSet] :
                \A i, j \in 1..n : i # j => db[i].name # db[j].name}
           : n \in 0..MaxTables}

Variants == {"extract_from_backup", "simple_tablet_backup", "extract_tablet_data"}
DeviceVariants == {"simple_tablet_backup", "extract_tablet_data"}

\* extract_from_backup.py line 16; the variants pull from the tablet.
BackupDbPath == "pos_backup_20250902_003531.db"
NoPath == "<no path>"

\* simple_tablet_backup.py lines 29-43, extract_tablet_data.py lines 66-82:
\* the database file names and, for each, the places it is pulled from.
DbFiles == <<"restaurant_ohbombaymilton_at_gmail_com.db", "ai_pos_system.db",
             "flutter.db", "database.db">>
Locations == <<"/data/data/com.restaurantpos.ai_pos_system/databases/",
               "/storage/emulated/0/Android/data/com.restaurantpos.ai_pos_system/databases/",
               "/data/data/com.restaurantpos.ai_pos_system/app_flutter/",
               "/storage/emulated/0/ai_pos_system/">>
NumCandidates == Len(DbFiles) * Len(Locations)

\* The k-th pull of the nested loops: every location of the first file name,
\* then every location of the second, and so on.
DbFileOf(k) == DbFiles[((k - 1) \div Len(Locations)) + 1]
LocationOf(k) == Locations[((k - 1) % Len(Locations)) + 1]

\* How one adb pull ends: return code 0 with the file in place, another
\* return code or no file, subprocess.TimeoutExpired, or another exception.
PullResults(k, dev) ==
    IF k \in dev THEN {"pulled"} ELSE {"failed", "timeout", "raised"}
NoPull == [file |-> "", location |-> "", result |-> "none"]

\* What the tablet delivers: the candidates whose pull ends with return code
\* 0 and the file in place; every other pull fails, times out or raises.
DeviceStates == {{}, {1}, {7, 12}, {NumCandidates}}

\* The files a run writes into its backup directory.
ManifestName == "data/extracted_data.json"
CategoriesScript == "scripts/restore_categories.py"
MenuItemsScript == "scripts/restore_menu_items.py"
RestoreAllScript == "scripts/restore_all_data.py"
ReadmeName == "README.md"

ExtractIdle ==
    /\ exPc = "idle"
    /\ variant = "extract_from_backup"
    /\ srcExists = FALSE
    /\ device = {}
    /\ candIdx = 0
    /\ lastPull = NoPull
    /\ db_path = NoPath
    /\ exConn = "none"
    /\ srcTables = <<>>
    /\ tables = <<>>
    /\ tableIdx = 0
    /\ extracted_data = <<>>
    /\ manifestFile = Unset
    /\ written = <<>>
    /\ readme = <<>>
    /\ summary = <<>>
    /\ exReport = Unset
    /\ exResult = Unset

ExtractInit ==
    /\ exPc = "start"
    /\ variant \in Variants
    /\ IF variant \in DeviceVariants
       THEN srcExists = FALSE /\ device \in DeviceStates
       ELSE srcExists \in BOOLEAN /\ device = {}
    /\ candIdx = 0
    /\ lastPull = NoPull
    /\ db_path = NoPath
    /\ exConn = "none"
    /\ srcTables \in SrcDatabases
    /\ tables = <<>>
    /\ tableIdx = 0
    /\ extracted_data = <<>>
    /\ manifestFile = Unset
    /\ written = <<>>
    /\ readme = <<>>
    /\ summary = <<>>
    /\ exReport = Unset
    /\ exResult = Unset

\* Mutant of SnapshotEntry: count taken from the column list.
SnapshotEntryMutant(columns, rows) ==
    LET table_data == [i \in 1..Len(rows) |-> Zip(columns, rows[i])]
    IN  [columns |-> columns, data |-> table_data, count |-> Len(columns)]

\* Lines 64-73: the entry of a table that was read.
SnapshotEntry(columns, rows) ==
    LET table_data == [i \in 1..Len(rows) |-> Zip(columns, rows[i])]
    IN  [columns |-> columns, data |-> table_data, count |-> Len(table_data)]

\* Lines 77-83: the entry of a table whose read raised.
ErrorEntry(message) == [error |-> message, data |-> <<>>, count |-> 0]

\* Lines 55-83: the body of the table loop for one table.
TableEntry(table) ==
    IF table.raises = NoError
    THEN SnapshotEntry(table.columns, table.rows)
    ELSE ErrorEntry(table.raises)

\* extracted_data[table_name] = entry
SetItem(dict, key, value) ==
    [k \in DOMAIN dict \cup {key} |-> IF k = key THEN value ELSE dict[k]]

\* extract_from_backup.py lines 16-36: without the backup file the run
\* returns False before it creates anything.
CheckBackupFile ==
    /\ exPc = "start"
    /\ variant = "extract_from_backup"
    /\ IF srcExists
       THEN /\ db_path' = BackupDbPath
            /\ exPc' = "connect"
            /\ UNCHANGED exResult
       ELSE /\ exPc' = "returned"
            /\ exResult' = "False"
            /\ UNCHANGED db_path
    /\ UNCHANGED <<variant, srcExists, device, candIdx, lastPull, exConn, srcTables, tables,
                   tableIdx, extracted_data, manifestFile, written, readme,
                   summary, exReport>>
    /\ UNCHANGED <<prVars, rsVars, sdVars>>

\* Mutant of PullCandidate: a pull that times out ends the search.
PullCandidateMutant ==
    /\ exPc = "start"
    /\ variant \in DeviceVariants
    /\ candIdx < NumCandidates
    /\ candIdx' = candIdx + 1
    /\ \E result \in PullResults(candIdx + 1, device) :
        /\ lastPull' = [file |-> DbFileOf(candIdx + 1),
                        location |-> LocationOf(candIdx + 1), result |-> result]
        /\ IF result = "pulled"
           THEN /\ db_path' = DbFileOf(candIdx + 1)
                /\ exPc' = "connect"
                /\ UNCHANGED exResult
           ELSE IF result = "timeout"
           THEN /\ exPc' = "returned"
                /\ exResult' = "False"
                /\ UNCHANGED db_path
           ELSE UNCHANGED <<db_path, exPc, exResult>>
    /\ UNCHANGED <<variant, srcExists, device, exConn, srcTables, tables,
                   tableIdx, extracted_data, manifestFile, written, readme,
                   summary, exReport>>
    /\ UNCHANGED <<prVars, rsVars, sdVars>>

\* simple_tablet_backup.py lines 45-61, extract_tablet_data.py lines 84-99:
\* one adb pull.  The first pull that succeeds ends both loops; a pull that
\* fails, times out or raises is followed by the next candidate.
PullCandidate ==
    /\ exPc = "start"
    /\ variant \in DeviceVariants
    /\ candIdx < NumCandidates
    /\ candIdx' = candIdx + 1
    /\ \E result \in PullResults(candIdx + 1, device) :
        /\ lastPull' = [file |-> DbFileOf(candIdx + 1),
                        location |-> LocationOf(candIdx + 1), result |-> result]
        /\ IF result = "pulled"
           THEN /\ db_path' = DbFileOf(candIdx + 1)
                /\ exPc' = "connect"
           ELSE UNCHANGED <<db_path, exPc>>
    /\ UNCHANGED <<variant, srcExists, device, exConn, srcTables, tables,
                   tableIdx, extracted_data, manifestFile, written, readme,
                   summary, exReport, exResult>>
    /\ UNCHANGED <<prVars, rsVars, sdVars>>

\* Mutant of PullFailed: the run goes on to read the database file.
PullFailedMutant ==
    /\ exPc = "start"
    /\ variant \in DeviceVariants
    /\ candIdx = NumCandidates
    /\ exPc' = "connect"
    /\ UNCHANGED exResult
    /\ UNCHANGED <<variant, srcExists, device, candIdx, lastPull, db_path, exConn, srcTables,
                   tables, tableIdx, extracted_data, manifestFile, written,
                   readme, summary, exReport>>
    /\ UNCHANGED <<prVars, rsVars, sdVars>>

\* simple_tablet_backup.py lines 63-65, extract_tablet_data.py lines 105-106
\* and 514-515: every pull failed.
PullFailed ==
    /\ exPc = "start"
    /\ variant \in DeviceVariants
    /\ candIdx = NumCandidates
    /\ exPc' = "returned"
    /\ exResult' = "False"
    /\ UNCHANGED <<variant, srcExists, device, candIdx, lastPull, db_path, exConn, srcTables,
                   tables, tableIdx, extracted_data, manifestFile, written,
                   readme, summary, exReport>>
    /\ UNCHANGED <<prVars, rsVars, sdVars>>

\* Lines 41-49: connect and list the tables.  sqlite3.connect may raise; on
\* a file that is not a database it succeeds and the table query raises.
\* Either error is caught by the handler of line 112, which returns False
\* and does not close the connection.
ListTables ==
    /\ exPc = "connect"
    /\ \E step \in {"listed", "connect raises", "query raises"} :
        /\ exConn' = IF step = "connect raises" THEN "none" ELSE "open"
        /\ IF step = "listed"
           THEN /\ tables' = [i \in 1..Len(srcTables) |-> srcTables[i].name]
                /\ exPc' = "loop"
                /\ UNCHANGED exResult
           ELSE /\ exPc' = "returned"
                /\ exResult' = "False"
                /\ UNCHANGED tables
    /\ UNCHANGED <<variant, srcExists, device, candIdx, lastPull, db_path, srcTables,
                   tableIdx, extracted_data, manifestFile, written, readme,
                   summary, exReport>>
    /\ UNCHANGED <<prVars, rsVars, sdVars>>

\* Mutant of ExtractTable: a read error leaves the loop through the handler
\* of line 112.
ExtractTableMutant ==
    /\ exPc = "loop"
    /\ tableIdx < Len(tables)
    /\ LET table == srcTables[tableIdx + 1]
       IN  IF table.raises = NoError
           THEN /\ extracted_data' = SetItem(extracted_data, tables[tableIdx + 1],
                                             TableEntry(table))
                /\ tableIdx' = tableIdx + 1
                /\ UNCHANGED <<exPc, exResult>>
           ELSE /\ exPc' = "returned"
                /\ exResult' = "False"
                /\ UNCHANGED <<extracted_data, tableIdx>>
    /\ UNCHANGED <<variant, srcExists, device, candIdx, lastPull, db_path, exConn, srcTables,
                   tables, manifestFile, written, readme, summary, exReport>>
    /\ UNCHANGED <<prVars, rsVars, sdVars>>

\* Lines 51-83: one iteration of the table loop.
ExtractTable ==
    /\ exPc = "loop"
    /\ tableIdx < Len(tables)
    /\ LET table == srcTables[tableIdx + 1]
       IN  extracted_data' = SetItem(extracted_data, tables[tableIdx + 1], TableEntry(table))
    /\ tableIdx' = tableIdx + 1
    /\ UNCHANGED <<exPc, variant, srcExists, device, candIdx, lastPull, db_path, exConn,
                   srcTables, tables, manifestFile, written, readme, summary,
                   exReport, exResult>>
    /\ UNCHANGED <<prVars, rsVars, sdVars>>

\* Lines 85-91: close the connection and write the manifest.
SaveManifest ==
    /\ exPc = "loop"
    /\ tableIdx = Len(tables)
    /\ exConn' = "closed"
    /\ manifestFile' = JsonManifest(extracted_data)
    /\ written' = Append(written, ManifestName)
    /\ exPc' = "saved"
    /\ UNCHANGED <<variant, srcExists, device, candIdx, lastPull, db_path, srcTables, tables,
                   tableIdx, extracted_data, readme, summary, exReport, exResult>>
    /\ UNCHANGED <<prVars, rsVars, sdVars>>

\* The restore scripts a variant writes for a manifest.  extract_from_backup
\* (lines 120, 187, 335) and simple_tablet_backup (lines 149, 282) skip a
\* table whose entry is an error entry; TabletDataExtractor (lines 175, 247,
\* 401) asks only whether the table is in the manifest.  simple_tablet_backup
\* has no menu-items script.
ScriptFiles(v, data) ==
    LET has(name) == /\ name \in DOMAIN data
                     /\ v = "extract_tablet_data" \/ "error" \notin DOMAIN data[name]
    IN  (IF has("categories") THEN <<CategoriesScript>> ELSE <<>>)
        \o (IF v # "simple_tablet_backup" /\ has("menu_items")
            THEN <<MenuItemsScript>> ELSE <<>>)
        \o <<RestoreAllScript>>

\* Mutant of CreateRestoreScripts: the scripts are written before the
\* manifest in the list of files.
CreateRestoreScriptsMutant ==
    /\ exPc = "saved"
    /\ IF variant = "extract_tablet_data" /\ DOMAIN extracted_data = {}
       THEN /\ exPc' = "returned"
            /\ exResult' = "False"
            /\ UNCHANGED written
       ELSE /\ written' = ScriptFiles(variant, extracted_data) \o written
            /\ exPc' = "scripts"
            /\ UNCHANGED exResult
    /\ UNCHANGED <<variant, srcExists, device, candIdx, lastPull, db_path, exConn, srcTables,
                   tables, tableIdx, extracted_data, manifestFile, readme,
                   summary, exReport>>
    /\ UNCHANGED <<prVars, rsVars, sdVars>>

\* Line 94 (create_restore_scripts), simple_tablet_backup.py line 123,
\* extract_tablet_data.py lines 490-494: write the restore scripts.
\* TabletDataExtractor takes an empty manifest for a failed read and returns
\* False here.
CreateRestoreScripts ==
    /\ exPc = "saved"
    /\ IF variant = "extract_tablet_data" /\ DOMAIN extracted_data = {}
       THEN /\ exPc' = "returned"
            /\ exResult' = "False"
            /\ UNCHANGED written
       ELSE /\ written' = written \o ScriptFiles(variant, extracted_data)
            /\ exPc' = "scripts"
            /\ UNCHANGED exResult
    /\ UNCHANGED <<variant, srcExists, device, candIdx, lastPull, db_path, exConn, srcTables,
                   tables, tableIdx, extracted_data, manifestFile, readme,
                   summary, exReport>>
    /\ UNCHANGED <<prVars, rsVars, sdVars>>

\* create_readme lines 352-356: the line of one table, either its error
\* text or its record count.
ReadmeLine(table_name, table_info) ==
    IF "error" \in DOMAIN table_info
    THEN [table |-> table_name, error |-> table_info.error, count |-> 0]
    ELSE [table |-> table_name, error |-> NoError, count |-> table_info.count]

\* Line 97 (create_readme, lines 340-408): write README.md with one line for
\* every entry of the manifest, in the order of the manifest.
CreateReadme ==
    /\ exPc = "scripts"
    /\ readme' = [i \in 1..Len(tables) |->
                    ReadmeLine(tables[i], extracted_data[tables[i]])]
    /\ written' = Append(written, ReadmeName)
    /\ exPc' = "readme"
    /\ UNCHANGED <<variant, srcExists, device, candIdx, lastPull, db_path, exConn, srcTables,
                   tables, tableIdx, extracted_data, manifestFile, summary,
                   exReport, exResult>>
    /\ UNCHANGED <<prVars, rsVars, sdVars>>

\* Lines 103-107: the sum of count over the entries that are not error
\* entries, taken over the first n tables.
RECURSIVE TotalRecords(_, _, _)
TotalRecords(data, names, n) ==
    IF n = 0
    THEN 0
    ELSE TotalRecords(data, names, n - 1)
         + (IF "error" \in DOMAIN data[names[n]] THEN 0 ELSE data[names[n]].count)

\* Mutant of PrintSummary: the total counts the tables instead of the rows.
PrintSummaryMutant ==
    /\ exPc = "readme"
    /\ summary' = [tables |-> Cardinality(DOMAIN extracted_data),
                   records |-> Cardinality(DOMAIN extracted_data)]
    /\ exResult' = "True"
    /\ exPc' = "returned"
    /\ UNCHANGED <<variant, srcExists, device, candIdx, lastPull, db_path, exConn, srcTables,
                   tables, tableIdx, extracted_data, manifestFile, written,
                   readme, exReport>>
    /\ UNCHANGED <<prVars, rsVars, sdVars>>

\* Lines 99-110: print the number of manifest entries and the total number
\* of records, and return True.
PrintSummary ==
    /\ exPc = "readme"
    /\ summary' = [tables |-> Cardinality(DOMAIN extracted_data),
                   records |-> TotalRecords(extracted_data, tables, Len(tables))]
    /\ exResult' = "True"
    /\ exPc' = "returned"
    /\ UNCHANGED <<variant, srcExists, device, candIdx, lastPull, db_path, exConn, srcTables,
                   tables, tableIdx, extracted_data, manifestFile, written,
                   readme, exReport>>
    /\ UNCHANGED <<prVars, rsVars, sdVars>>

\* main (lines 410-417): report the outcome of the run.
ExtractMain ==
    /\ exPc = "returned"
    /\ exReport' = IF exResult = "True"
                   THEN "Backup completed successfully!"
                   ELSE "Backup failed. Please check the error messages above."
    /\ exPc' = "exited"
    /\ UNCHANGED <<variant, srcExists, device, candIdx, lastPull, db_path, exConn, srcTables,
                   tables, tableIdx, extracted_data, manifestFile, written,
                   readme, summary, exResult>>
    /\ UNCHANGED <<prVars, rsVars, sdVars>>

ExtractNext ==
    \/ CheckBackupFile
    \/ PullCandidate
    \/ PullFailed
    \/ ListTables
    \/ ExtractTable
    \/ SaveManifest
    \/ CreateRestoreScripts
    \/ CreateReadme
    \/ PrintSummary
    \/ ExtractMain

(***************************************************************************)
(* clear_firebase_menu.py                                                  *)
(***************************************************************************)
CatIds  == {"cat_" \o ToString(i) : i \in 1..MaxCats}
ItemIds == {"item_" \o ToString(i) : i \in 1..MaxItems}
CatNames == {"Snacks", "Drinks"}
\* categoryId values: the id of a possible category, an id that no category
\* document has (dangling), or no categoryId field at all.
CategoryRefs == CatIds \cup {"cat_gone", Missing}

\* --keep default of lines 20-21 and 152.
DefaultKeep == {"Snacks", "Receipts"}
KeepLists == {DefaultKeep, {"Drinks"}, {"Receipts"}}

\* Command lines: --tenant given or not, --confirm given or not, --keep given
\* with one name or more (nargs='+') or not given.
CommandLines ==
    {a \in [tenant : {"tenant_a", Missing}, confirm : BOOLEAN,
            keepGiven : BOOLEAN, keep : KeepLists \cup {{}}] :
        a.keepGiven <=> a.keep # {}}

\* Line 152: args.keep is the names given, or the default list.
ParsedKeep(a) == IF a.keepGiven THEN a.keep ELSE DefaultKeep

CatStores  == UNION {[S -> CatNames \cup {Missing}] : S \in SUBSET CatIds}
ItemStores == UNION {[S -> CategoryRefs] : S \in SUBSET ItemIds}

PruneIdle ==
    /\ prPc = "idle"
    /\ args = [tenant |-> Missing, confirm |-> FALSE, keepGiven |-> FALSE,
               keep |-> {}]
    /\ tenantExists = FALSE
    /\ catStore = <<>>
    /\ itemStore = <<>>
    /\ keep_categories = {}
    /\ categories = <<>>
    /\ categories_to_delete = {}
    /\ kept_categories = {}
    /\ cat = NoDoc
    /\ items_in_category = {}
    /\ orphaned_items = {}
    /\ deleted_categories = 0
    /\ deleted_menu_items = 0
    /\ storeReads = 0
    /\ storeDeletes = 0
    /\ storeRejects = 0
    /\ success = Unset
    /\ exitStatus = NotExited

PruneInit ==
    /\ prPc = "main"
    /\ args \in CommandLines
    /\ tenantExists \in BOOLEAN
    /\ catStore \in CatStores
    /\ itemStore \in ItemStores
    /\ keep_categories = {}
    /\ categories = <<>>
    /\ categories_to_delete = {}
    /\ kept_categories = {}
    /\ cat = NoDoc
    /\ items_in_category = {}
    /\ orphaned_items = {}
    /\ deleted_categories = 0
    /\ deleted_menu_items = 0
    /\ storeReads = 0
    /\ storeDeletes = 0
    /\ storeRejects = 0
    /\ success = Unset
    /\ exitStatus = NotExited

\* cat_data.get('name', '') of lines 66, 78, 109 on the snapshot list.
CatNameOf(snapshot, c) == FieldOr(snapshot[c], "")

\* Mutant of CategoriesToDelete: every category goes to the delete list.
CategoriesToDeleteMutant(snapshot, keep) == DOMAIN snapshot

\* Lines 63-72: the categories of the snapshot that go to the delete list.
CategoriesToDelete(snapshot, keep) ==
    {c \in DOMAIN snapshot : CatNameOf(snapshot, c) \notin keep}

\* Lines 64-69: the names appended to kept_categories.
KeptNames(snapshot, keep) ==
    {CatNameOf(snapshot, c) : c \in {d \in DOMAIN snapshot : CatNameOf(snapshot, d) \in keep}}

\* Mutant of ItemsWhereCategory: the query finds no item.
ItemsWhereCategoryMutant(store, cat_id) == {}

\* Line 82: menu_items_ref.where('categoryId', '==', cat_id).stream()
ItemsWhereCategory(store, cat_id) == {i \in DOMAIN store : store[i] = cat_id}

\* Lines 103-111: item_data.get('categoryId', '') is the id of a category of
\* the snapshot whose name is on the keep-list.
BelongsToKeptCategory(ref, snapshot, keep) ==
    \E c \in DOMAIN snapshot :
        c = FieldOr(ref, "") /\ CatNameOf(snapshot, c) \in keep

\* Lines 98-114: the orphan list built from all item documents.
OrphanedItems(store, snapshot, keep) ==
    {i \in DOMAIN store : ~BelongsToKeptCategory(store[i], snapshot, keep)}

\* Lines 88 and 121 call item.delete() on what stream() yields, a
\* DocumentSnapshot.  A DocumentSnapshot has id, reference, exists, get and
\* to_dict and no delete method (line 92 deletes a category through
\* cat.reference.delete()), so the call raises AttributeError before any
\* request is sent; the handler of line 145 catches it.
ItemDeleteRaises == TRUE

\* Mutant of NotConfirmed: the safety exit is never taken.
NotConfirmedMutant == FALSE

\* Line 159: the guard of the safety exit.
NotConfirmed == ~args.confirm

\* argparse, line 157: --tenant is required; parse_args exits with status 2.
ArgparseError ==
    /\ prPc = "main"
    /\ args.tenant = Missing
    /\ prPc' = "exited"
    /\ exitStatus' = 2
    /\ UNCHANGED <<args, storeRejects, tenantExists, catStore, itemStore, keep_categories,
                   categories, categories_to_delete, kept_categories, cat,
                   items_in_category, orphaned_items, deleted_categories,
                   deleted_menu_items, storeReads, storeDeletes, success>>
    /\ UNCHANGED <<exVars, rsVars, sdVars>>

\* Lines 159-164: without --confirm print the warning and sys.exit(1).
RefuseWithoutConfirm ==
    /\ prPc = "main"
    /\ args.tenant # Missing
    /\ NotConfirmed
    /\ prPc' = "exited"
    /\ exitStatus' = 1
    /\ UNCHANGED <<args, storeRejects, tenantExists, catStore, itemStore, keep_categories,
                   categories, categories_to_delete, kept_categories, cat,
                   items_in_category, orphaned_items, deleted_categories,
                   deleted_menu_items, storeReads, storeDeletes, success>>
    /\ UNCHANGED <<exVars, rsVars, sdVars>>

\* Lines 166-182: initialise the Firebase app (credentials may be missing:
\* sys.exit(1)), then call clear_firebase_menu(args.tenant, args.keep).
InitFirebaseApp ==
    /\ prPc = "main"
    /\ args.tenant # Missing
    /\ ~NotConfirmed
    /\ \E ok \in BOOLEAN :
        IF ok
        THEN /\ prPc' = "connect"
             /\ keep_categories' = ParsedKeep(args)
             /\ UNCHANGED exitStatus
        ELSE /\ prPc' = "exited"
             /\ exitStatus' = 1
             /\ UNCHANGED keep_categories
    /\ UNCHANGED <<args, storeRejects, tenantExists, catStore, itemStore,
                   categories, categories_to_delete, kept_categories, cat,
                   items_in_category, orphaned_items, deleted_categories,
                   deleted_menu_items, storeReads, storeDeletes, success>>
    /\ UNCHANGED <<exVars, rsVars, sdVars>>

\* Lines 27-32: firestore.client(); a failure returns False.
ConnectFirestore ==
    /\ prPc = "connect"
    /\ \E ok \in BOOLEAN :
        IF ok
        THEN /\ prPc' = "tenant"
             /\ UNCHANGED success
        ELSE /\ prPc' = "returned"
             /\ success' = "False"
    /\ UNCHANGED <<args, storeRejects, tenantExists, catStore, itemStore, keep_categories,
                   categories, categories_to_delete, kept_categories, cat,
                   items_in_category, orphaned_items, deleted_categories,
                   deleted_menu_items, storeReads, storeDeletes, exitStatus>>
    /\ UNCHANGED <<exVars, rsVars, sdVars>>

\* Mutant of CheckTenant: the cleanup goes on without the tenant document.
CheckTenantMutant ==
    /\ prPc = "tenant"
    /\ storeReads' = storeReads + 1
    /\ \E raises \in BOOLEAN :
        IF ~raises
        THEN /\ prPc' = "fetch"
             /\ UNCHANGED success
        ELSE /\ prPc' = "returned"
             /\ success' = "False"
    /\ UNCHANGED <<args, storeRejects, tenantExists, catStore, itemStore, keep_categories,
                   categories, categories_to_delete, kept_categories, cat,
                   items_in_category, orphaned_items, deleted_categories,
                   deleted_menu_items, storeDeletes, exitStatus>>
    /\ UNCHANGED <<exVars, rsVars, sdVars>>

\* Lines 37-46: tenant_ref.get(); a missing tenant or a raising get returns
\* False.
CheckTenant ==
    /\ prPc = "tenant"
    /\ storeReads' = storeReads + 1
    /\ \E raises \in BOOLEAN :
        IF ~raises /\ tenantExists
        THEN /\ prPc' = "fetch"
             /\ UNCHANGED success
        ELSE /\ prPc' = "returned"
             /\ success' = "False"
    /\ UNCHANGED <<args, storeRejects, tenantExists, catStore, itemStore, keep_categories,
                   categories, categories_to_delete, kept_categories, cat,
                   items_in_category, orphaned_items, deleted_categories,
                   deleted_menu_items, storeDeletes, exitStatus>>
    /\ UNCHANGED <<exVars, rsVars, sdVars>>

\* Lines 56-72: list the category documents and partition them.
FetchCategories ==
    /\ prPc = "fetch"
    /\ storeReads' = storeReads + 1
    /\ categories' = catStore
    /\ categories_to_delete' = CategoriesToDelete(catStore, keep_categories)
    /\ kept_categories' = KeptNames(catStore, keep_categories)
    /\ prPc' = "delete_loop"
    /\ UNCHANGED <<args, storeRejects, tenantExists, catStore, itemStore, keep_categories,
                   cat, items_in_category, orphaned_items, deleted_categories,
                   deleted_menu_items, storeDeletes, success, exitStatus>>
    /\ UNCHANGED <<exVars, rsVars, sdVars>>

\* Lines 76-83: next category of the delete list; query its items.
QueryItemsInCategory ==
    /\ prPc = "delete_loop"
    /\ \E c \in categories_to_delete :
        /\ cat' = c
        /\ items_in_category' = ItemsWhereCategory(itemStore, c)
    /\ storeReads' = storeReads + 1
    /\ prPc' = "delete_items"
    /\ UNCHANGED <<args, storeRejects, tenantExists, catStore, itemStore, keep_categories,
                   categories, categories_to_delete, kept_categories,
                   orphaned_items, deleted_categories, deleted_menu_items,
                   storeDeletes, success, exitStatus>>
    /\ UNCHANGED <<exVars, rsVars, sdVars>>

\* Lines 87-89: item.delete() for the next item of the category.
DeleteItemInCategory ==
    /\ prPc = "delete_items"
    /\ \E item \in items_in_category :
        IF ItemDeleteRaises
        THEN /\ prPc' = "returned"
             /\ success' = "False"
             /\ UNCHANGED <<itemStore, items_in_category, deleted_menu_items,
                            storeDeletes>>
        ELSE /\ itemStore' = Restrict(itemStore, DOMAIN itemStore \ {item})
             /\ items_in_category' = items_in_category \ {item}
             /\ deleted_menu_items' = deleted_menu_items + 1
             /\ storeDeletes' = storeDeletes + 1
             /\ UNCHANGED <<prPc, success>>
    /\ UNCHANGED <<args, storeRejects, tenantExists, catStore, keep_categories,
                   categories, categories_to_delete, kept_categories, cat,
                   orphaned_items, deleted_categories, storeReads, exitStatus>>
    /\ UNCHANGED <<exVars, rsVars, sdVars>>

\* Lines 91-94: cat.reference.delete() once the category's items are done.
\* A delete that the store rejects raises; the handler of lines 145-147
\* returns False.
DeleteCategory ==
    /\ prPc = "delete_items"
    /\ items_in_category = {}
    /\ \E raises \in BOOLEAN :
        IF raises
        THEN /\ prPc' = "returned"
             /\ success' = "False"
             /\ storeRejects' = storeRejects + 1
             /\ UNCHANGED <<catStore, categories_to_delete, deleted_categories,
                            storeDeletes, cat>>
        ELSE /\ catStore' = Restrict(catStore, DOMAIN catStore \ {cat})
             /\ categories_to_delete' = categories_to_delete \ {cat}
             /\ deleted_categories' = deleted_categories + 1
             /\ storeDeletes' = storeDeletes + 1
             /\ cat' = NoDoc
             /\ prPc' = "delete_loop"
             /\ UNCHANGED <<success, storeRejects>>
    /\ UNCHANGED <<args, tenantExists, itemStore, keep_categories,
                   categories, kept_categories, items_in_category,
                   orphaned_items, deleted_menu_items, storeReads,
                   exitStatus>>
    /\ UNCHANGED <<exVars, rsVars, sdVars>>

\* Lines 96-114: after the delete loop, list all items and collect the
\* orphans.
FetchAllItems ==
    /\ prPc = "delete_loop"
    /\ categories_to_delete = {}
    /\ storeReads' = storeReads + 1
    /\ orphaned_items' = OrphanedItems(itemStore, categories, keep_categories)
    /\ prPc' = "orphans"
    /\ UNCHANGED <<args, storeRejects, tenantExists, catStore, itemStore, keep_categories,
                   categories, categories_to_delete, kept_categories, cat,
                   items_in_category, deleted_categories, deleted_menu_items,
                   storeDeletes, success, exitStatus>>
    /\ UNCHANGED <<exVars, rsVars, sdVars>>

\* Lines 116-123: item.delete() for the next orphaned item.
DeleteOrphan ==
    /\ prPc = "orphans"
    /\ \E item \in orphaned_items :
        IF ItemDeleteRaises
        THEN /\ prPc' = "returned"
             /\ success' = "False"
             /\ UNCHANGED <<itemStore, orphaned_items, deleted_menu_items,
                            storeDeletes>>
        ELSE /\ itemStore' = Restrict(itemStore, DOMAIN itemStore \ {item})
             /\ orphaned_items' = orphaned_items \ {item}
             /\ deleted_menu_items' = deleted_menu_items + 1
             /\ storeDeletes' = storeDeletes + 1
             /\ UNCHANGED <<prPc, success>>
    /\ UNCHANGED <<args, storeRejects, tenantExists, catStore, keep_categories,
                   categories, categories_to_delete, kept_categories, cat,
                   items_in_category, deleted_categories, storeReads, exitStatus>>
    /\ UNCHANGED <<exVars, rsVars, sdVars>>

\* Lines 125-143: summary, the two verification reads, return True.
VerifyFinalState ==
    /\ prPc = "orphans"
    /\ orphaned_items = {}
    /\ storeReads' = storeReads + 2
    /\ success' = "True"
    /\ prPc' = "returned"
    /\ UNCHANGED <<args, storeRejects, tenantExists, catStore, itemStore, keep_categories,
                   categories, categories_to_delete, kept_categories, cat,
                   items_in_category, orphaned_items, deleted_categories,
                   deleted_menu_items, storeDeletes, exitStatus>>
    /\ UNCHANGED <<exVars, rsVars, sdVars>>

\* Lines 184-189: exit status from the result of clear_firebase_menu.
MainExit ==
    /\ prPc = "returned"
    /\ exitStatus' = IF success = "True" THEN 0 ELSE 1
    /\ prPc' = "exited"
    /\ UNCHANGED <<args, storeRejects, tenantExists, catStore, itemStore, keep_categories,
                   categories, categories_to_delete, kept_categories, cat,
                   items_in_category, orphaned_items, deleted_categories,
                   deleted_menu_items, storeReads, storeDeletes, success>>
    /\ UNCHANGED <<exVars, rsVars, sdVars>>

PruneNext ==
    \/ ArgparseError
    \/ RefuseWithoutConfirm
    \/ InitFirebaseApp
    \/ ConnectFirestore
    \/ CheckTenant
    \/ FetchCategories
    \/ QueryItemsInCategory
    \/ DeleteItemInCategory
    \/ DeleteCategory
    \/ FetchAllItems
    \/ DeleteOrphan
    \/ VerifyFinalState
    \/ MainExit

(***************************************************************************)
(* The restore-script generator (create_restore_scripts of                 *)
(* extract_from_backup.py and simple_tablet_backup.py, the create_*_script *)
(* methods of TabletDataExtractor) and the scripts it writes               *)
(* (scripts/restore_categories.py, scripts/restore_all_data.py, the        *)
(* menu-items script).                                                     *)
(***************************************************************************)
\* The scripts and who writes them.  The categories and comprehensive
\* templates of the three extractors differ in messages and indentation only;
\* the menu-items template of TabletDataExtractor differs in its imports.
Generators ==
    {[script |-> "categories", variant |-> "extract_from_backup"],
     [script |-> "menu_items", variant |-> "extract_from_backup"],
     [script |-> "menu_items", variant |-> "extract_tablet_data"],
     [script |-> "all",        variant |-> "extract_from_backup"]}

\* Column lists a captured table can have, per script, and the values a
\* column can hold.  Numbers are written as their literal text.
CapturedColumnLists(script) ==
    IF script = "menu_items"
    THEN {<<"id", "name", "price">>, <<"id", "name", "tags">>,
          <<"name", "is_vegetarian">>}
    ELSE {<<"id", "name", "sort_order">>,
          <<"id", "name", "created_at", "updated_at">>,
          <<"name", "sort_order">>,
          <<"id", "name", "image_url">>,
          <<"id", "name", "icon">>}

ColumnValues(script, c) ==
    CASE c = "id" -> IF script = "menu_items" THEN {"item_1", None}
                     ELSE {"cat_1", "cat_2", None}
      [] c = "name" -> IF script = "menu_items" THEN {"Samosa"} ELSE {"Soups"}
      [] c = "sort_order" -> {"1", None}
      [] c = "created_at" -> {"2025-08-26T04:19:58"}
      [] c = "updated_at" -> {"2025-08-26T04:19:59"}
      [] c = "image_url" -> {None}
      [] c = "icon" -> {"icon_emoji", "*"}
      [] c = "price" -> {"4.5"}
      [] c = "tags" -> {"veg"}
      [] c = "is_vegetarian" -> {"1"}

\* Row dictionaries over a column list, as dict(zip(columns, row)) builds them.
RowsOver(script, columns) ==
    {r \in [Range(columns) -> UNION {ColumnValues(script, c) : c \in Range(columns)}] :
        \A c \in Range(columns) : r[c] \in ColumnValues(script, c)}

\* id is the primary key of the source table: ids that are not NULL are
\* distinct.
DistinctIds(data) ==
    \A i, j \in 1..Len(data) :
        (i # j /\ "id" \in DOMAIN data[i] /\ data[i].id # None)
            => data[i].id # data[j].id

\* Manifest entries of a successfully read table (lines 69-73).
CapturedTables(script) ==
    UNION {
        {[columns |-> cl, data |-> d, count |-> Len(d)] :
            d \in {x \in UNION {[1..n -> RowsOver(script, cl)] : n \in 0..MaxRows} :
                      DistinctIds(x)}}
        : cl \in CapturedColumnLists(script)}

\* Manifest entries of a table whose read failed (lines 77-83), which only
\* the comprehensive script meets: the per-table scripts of
\* extract_from_backup are not written for them.
FailedTables(script) ==
    IF script = "all" THEN {ErrorEntry(e) : e \in ReadErrors} ELSE {}

\* datetime.now() rendered as text.
Now(t) == "time_" \o ToString(t)
\* str(uuid.uuid4()): a value no earlier call returned.
Uuid(n) == "uuid_" \o ToString(n)

\* dict.get(key, default): the default only when the key is absent; a key
\* that is present with None yields None.
Get(row, key, default) == IF key \in DOMAIN row THEN row[key] ELSE default

\* The text a Python string literal denotes when it is written as a JSON
\* surrogate-pair escape: two lone surrogates, not the character.
Surrogates(v) == "surrogates:" \o v

\* Evaluating one JSON scalar as a Python expression (the data literal of the
\* generated script); null is handled by DataLiteralRaises.
PyEvalScalar(token) ==
    IF token[1] = "escaped" THEN Surrogates(token[2]) ELSE token[2]

PyEvalRow(jrow) == [c \in DOMAIN jrow |-> PyEvalScalar(jrow[c])]
PyEvalRows(jrows) == [i \in 1..Len(jrows) |-> PyEvalRow(jrows[i])]

\* The data literal is json.dumps output pasted into Python source
\* (extract_from_backup.py line 138; restore_categories.py lines 16-97): a
\* null in it is the undefined name null, and evaluating the list raises
\* NameError before the try block of the script is entered.
DataLiteralRaises(jrows) ==
    \E i \in 1..Len(jrows) : \E c \in DOMAIN jrows[i] : jrows[i][c] = <<"null">>

\* sqlite3 cannot bind a str that holds lone surrogates: execute raises
\* UnicodeEncodeError.
Bindable(values) ==
    \A c \in DOMAIN values : values[c] \notin {Surrogates(a) : a \in AstralTexts}

\* json.dumps(value) inside the menu-items script: the JSON text of a value.
JsonText(v) == IF v = None THEN "null" ELSE "\"" \o v \o "\""

\* Mutant of CategoryValues: is_active falls back to 0.
CategoryValuesMutant(category, fresh_id, now) ==
    [id          |-> Get(category, "id", fresh_id),
     name        |-> Get(category, "name", ""),
     description |-> Get(category, "description", ""),
     color       |-> Get(category, "color", "#FF6B6B"),
     icon        |-> Get(category, "icon", "icon_plate"),
     sort_order  |-> Get(category, "sort_order", "0"),
     is_active   |-> Get(category, "is_active", "0"),
     created_at  |-> Get(category, "created_at", now),
     updated_at  |-> Get(category, "updated_at", now)]

\* restore_categories.py lines 112-122 (extract_from_backup.py lines
\* 153-163): the values bound to the categories statement.
CategoryValues(category, fresh_id, now) ==
    [id          |-> Get(category, "id", fresh_id),
     name        |-> Get(category, "name", ""),
     description |-> Get(category, "description", ""),
     color       |-> Get(category, "color", "#FF6B6B"),
     icon        |-> Get(category, "icon", "icon_plate"),
     sort_order  |-> Get(category, "sort_order", "0"),
     is_active   |-> Get(category, "is_active", "1"),
     created_at  |-> Get(category, "created_at", now),
     updated_at  |-> Get(category, "updated_at", now)]

\* json.dumps(item.get(key, default)) with a list or dict default.
JsonField(item, key, default_text) ==
    IF key \in DOMAIN item THEN JsonText(item[key]) ELSE default_text

\* extract_from_backup.py lines 223-245 (extract_tablet_data.py lines
\* 286-308): the values bound to the menu-items statement.
MenuItemValues(item, fresh_id, now) ==
    [id                  |-> Get(item, "id", fresh_id),
     name                |-> Get(item, "name", ""),
     description         |-> Get(item, "description", ""),
     price               |-> Get(item, "price", "0.0"),
     category_id         |-> Get(item, "category_id", ""),
     tags                |-> JsonField(item, "tags", "[]"),
     custom_properties   |-> JsonField(item, "custom_properties", "{}"),
     variants            |-> JsonField(item, "variants", "[]"),
     modifiers           |-> JsonField(item, "modifiers", "[]"),
     nutritional_info    |-> JsonField(item, "nutritional_info", "{}"),
     allergens           |-> JsonField(item, "allergens", "{}"),
     preparation_time    |-> Get(item, "preparation_time", "10"),
     is_vegetarian       |-> Get(item, "is_vegetarian", "0"),
     is_vegan            |-> Get(item, "is_vegan", "0"),
     is_gluten_free      |-> Get(item, "is_gluten_free", "0"),
     is_spicy            |-> Get(item, "is_spicy", "0"),
     spice_level         |-> Get(item, "spice_level", "0"),
     stock_quantity      |-> Get(item, "stock_quantity", "100"),
     low_stock_threshold |-> Get(item, "low_stock_threshold", "10"),
     created_at          |-> Get(item, "created_at", now),
     updated_at          |-> Get(item, "updated_at", now)]

\* Mutant of AllDataValues: a column whose value is None is left out of the
\* statement.
AllDataValuesMutant(columns, row) ==
    [c \in {x \in Range(columns) : Get(row, x, None) # None} |-> row[c]]

\* restore_all_data.py lines 43-48: row.get(col), with None replaced by ''
\* (col is always a str, so the 0 branch is never taken).
AllDataValues(columns, row) ==
    [c \in Range(columns) |->
        IF Get(row, c, None) = None THEN "" ELSE row[c]]

\* The menu-items script of TabletDataExtractor imports sqlite3, uuid and
\* datetime (extract_tablet_data.py lines 259-261) and calls json.dumps
\* (lines 292-297): building the values raises NameError for every row.
ValuesRaise(gen) ==
    gen.script = "menu_items" /\ gen.variant = "extract_tablet_data"

\* The values one row binds, by script.
StatementValues(gen, entry, row, fresh_id, now) ==
    CASE gen.script = "categories" -> CategoryValues(row, fresh_id, now)
      [] gen.script = "menu_items" -> MenuItemValues(row, fresh_id, now)
      [] gen.script = "all"        -> AllDataValues(entry.columns, row)

\* Mutant of InsertOrReplace: a plain insert into a table without a key.
InsertOrReplaceMutant(db, values, rowid) ==
    LET key == <<"rowid", ToString(rowid)>>
    IN  [k \in DOMAIN db \cup {key} |-> IF k = key THEN values ELSE db[k]]

\* INSERT OR REPLACE: the row takes the place of the row with the same id;
\* a row without an id (or with a NULL id) is a further row.
InsertOrReplace(db, values, rowid) ==
    LET key == IF "id" \in DOMAIN values /\ values.id # None
               THEN <<"id", values.id>>
               ELSE <<"rowid", ToString(rowid)>>
    IN  [k \in DOMAIN db \cup {key} |-> IF k = key THEN values ELSE db[k]]

\* Mutant of ScriptContent: the defaults are stamped when the script is
\* generated.
ScriptContentMutant(gen, entry, now) ==
    [template     |-> <<gen.script, gen.variant, now>>,
     generated_on |-> now,
     data         |-> IF gen.script = "all" THEN <<>> ELSE JsonRows(entry.data)]

\* The text of a generated script: the template of the script, the one
\* "Generated on:" line (extract_from_backup.py lines 126, 193, 272) and, for
\* the per-table scripts, the data literal json.dumps(rows, indent=4) (lines
\* 138, 206).  The comprehensive script embeds no data; it reads the manifest.
ScriptContent(gen, entry, now) ==
    [template     |-> <<gen.script, gen.variant>>,
     generated_on |-> now,
     data         |-> IF gen.script = "all" THEN <<>> ELSE JsonRows(entry.data)]

\* The rows a run iterates: the data literal evaluated as Python, or, in the
\* comprehensive script, the manifest read back with json.load.
\* The comprehensive script (restore_all_data.py lines 28-35) skips a table
\* whose entry has an error key and iterates the data of every other table.
LoadedRows(gen, entry, script) ==
    IF gen.script = "all"
    THEN IF "error" \in DOMAIN entry
         THEN <<>>
         ELSE JsonLoadRows(JsonRows(entry.data))
    ELSE PyEvalRows(script.data)

\* Destination rows present before the first run: none, or one row with the
\* first id that an earlier restore left behind.
StaleRow(gen, entry) ==
    LET cols == CASE gen.script = "categories" -> DOMAIN CategoryValues(<<>>, "", "")
                  [] gen.script = "menu_items" -> DOMAIN MenuItemValues(<<>>, "", "")
                  [] gen.script = "all"        ->
                        IF "columns" \in DOMAIN entry
                        THEN Range(entry.columns) ELSE Range(SrcColumns)
        first == IF gen.script = "menu_items" THEN "item_1" ELSE "cat_1"
    IN  [c \in cols |-> IF c = "id" THEN first ELSE "stale"]

RestoreIdle ==
    /\ rsPc = "idle"
    /\ generator = Unset
    /\ captured = Unset
    /\ clock = 0
    /\ scripts = <<>>
    /\ dest = <<>>
    /\ destFile = <<>>
    /\ rsConn = "none"
    /\ interrupted = 0
    /\ destHistory = <<>>
    /\ rowList = <<>>
    /\ rowIdx = 0
    /\ executed = <<>>
    /\ uuidCount = 0
    /\ nextRowid = 1
    /\ runs = 0
    /\ outcome = Unset

RestoreInit ==
    /\ rsPc = "generate"
    /\ generator \in Generators
    /\ captured \in CapturedTables(generator.script) \cup FailedTables(generator.script)
    /\ clock = 0
    /\ scripts = <<>>
    /\ \E stale \in BOOLEAN :
        dest = IF stale
               THEN InsertOrReplace(<<>>, StaleRow(generator, captured), 0)
               ELSE <<>>
    /\ destFile = dest
    /\ rsConn = "none"
    /\ interrupted = 0
    /\ destHistory = <<dest>>
    /\ rowList = <<>>
    /\ rowIdx = 0
    /\ executed = <<>>
    /\ uuidCount = 0
    /\ nextRowid = 1
    /\ runs = 0
    /\ outcome = Unset

\* create_restore_scripts (extract_from_backup.py lines 116-338): write the
\* script from the captured entry, at the current time.
Generate ==
    /\ rsPc \in {"generate", "ready"}
    /\ runs = 0
    /\ Len(scripts) < MaxGenerations
    /\ clock' = clock + 1
    /\ scripts' = Append(scripts, ScriptContent(generator, captured, Now(clock + 1)))
    /\ rsPc' = "ready"
    /\ UNCHANGED <<generator, captured, dest, destFile, rsConn, interrupted,
                   destHistory, rowList, rowIdx, executed, uuidCount,
                   nextRowid, runs, outcome>>
    /\ UNCHANGED <<prVars, exVars, sdVars>>

\* Start the latest script: the function body up to the for loop
\* (restore_categories.py lines 14-103, restore_all_data.py lines 15-26).
\* A data literal that raises ends the process there, before
\* sqlite3.connect; otherwise the connection is open when the loop starts.
StartRun ==
    /\ rsPc = "ready"
    /\ runs < MaxRuns
    /\ clock' = clock + 1
    /\ executed' = <<>>
    /\ rowIdx' = 0
    /\ LET script == scripts[Len(scripts)]
       IN  IF generator.script # "all" /\ DataLiteralRaises(script.data)
           THEN /\ outcome' = "NameError"
                /\ runs' = runs + 1
                /\ destHistory' = Append(destHistory, destFile)
                /\ rowList' = <<>>
                /\ rsConn' = "none"
                /\ UNCHANGED rsPc
           ELSE /\ rowList' = LoadedRows(generator, captured, script)
                /\ rsPc' = "running"
                /\ rsConn' = "open"
                /\ UNCHANGED <<outcome, runs, destHistory>>
    /\ UNCHANGED <<generator, captured, scripts, dest, destFile, interrupted,
                   uuidCount, nextRowid>>
    /\ UNCHANGED <<prVars, exVars, sdVars>>

\* One iteration of the row loop (restore_categories.py lines 105-127,
\* restore_all_data.py lines 35-54): bind the values and execute the
\* statement; an exception is caught, printed and the row skipped.
RestoreRow ==
    /\ rsPc = "running"
    /\ rowIdx < Len(rowList)
    /\ rowIdx' = rowIdx + 1
    /\ LET row == rowList[rowIdx + 1]
           fresh == Uuid(uuidCount + 1)
           values == StatementValues(generator, captured, row, fresh, Now(clock))
       IN  IF ValuesRaise(generator) \/ ~Bindable(values)
           THEN UNCHANGED <<dest, executed, nextRowid>>
           ELSE /\ dest' = InsertOrReplace(dest, values, nextRowid)
                /\ nextRowid' = nextRowid + 1
                /\ executed' = Append(executed,
                                      [row |-> rowIdx + 1, values |-> values,
                                       now |-> Now(clock)])
    /\ uuidCount' = IF generator.script = "all" THEN uuidCount ELSE uuidCount + 1
    /\ UNCHANGED <<rsPc, generator, captured, clock, scripts, destFile, rsConn,
                   interrupted, destHistory, rowList, runs, outcome>>
    /\ UNCHANGED <<prVars, exVars, sdVars>>

\* After the loop: commit and close (restore_categories.py lines 129-131,
\* restore_all_data.py lines 56-58).  The statements of the run are in one
\* transaction, which conn.commit() makes durable.  A commit that raises
\* (database locked, disk full) goes to the handler of the function
\* (restore_categories.py lines 133-134, restore_all_data.py lines 60-61),
\* which prints the error: conn.close() is not reached and the transaction is
\* lost when the process ends.
FinishRun ==
    /\ rsPc = "running"
    /\ rowIdx = Len(rowList)
    /\ \E commitRaises \in BOOLEAN :
        IF commitRaises
        THEN /\ outcome' = "error"
             /\ dest' = destFile
             /\ interrupted' = interrupted + 1
             /\ UNCHANGED <<destFile, rsConn>>
        ELSE /\ outcome' = "completed"
             /\ destFile' = dest
             /\ rsConn' = "closed"
             /\ UNCHANGED <<dest, interrupted>>
    /\ runs' = runs + 1
    /\ destHistory' = Append(destHistory, destFile')
    /\ rsPc' = "ready"
    /\ UNCHANGED <<generator, captured, clock, scripts, rowList, rowIdx,
                   executed, uuidCount, nextRowid>>
    /\ UNCHANGED <<prVars, exVars, sdVars>>

\* Mutant of AbortRun: the statements executed so far stay in the file.
AbortRunMutant ==
    /\ rsPc = "running"
    /\ rowIdx < Len(rowList)
    /\ outcome' = "aborted"
    /\ destFile' = dest
    /\ interrupted' = interrupted + 1
    /\ runs' = runs + 1
    /\ destHistory' = Append(destHistory, dest)
    /\ rsPc' = "ready"
    /\ UNCHANGED <<generator, captured, clock, scripts, dest, rsConn, rowList,
                   rowIdx, executed, uuidCount, nextRowid>>
    /\ UNCHANGED <<prVars, exVars, sdVars>>

\* The process is stopped inside the row loop (interrupt, kill, power loss)
\* after the statements executed so far: nothing was committed, so the
\* database file keeps the content it had before the run.
AbortRun ==
    /\ rsPc = "running"
    /\ rowIdx < Len(rowList)
    /\ outcome' = "aborted"
    /\ dest' = destFile
    /\ interrupted' = interrupted + 1
    /\ runs' = runs + 1
    /\ destHistory' = Append(destHistory, destFile)
    /\ rsPc' = "ready"
    /\ UNCHANGED <<generator, captured, clock, scripts, destFile, rsConn, rowList,
                   rowIdx, executed, uuidCount, nextRowid>>
    /\ UNCHANGED <<prVars, exVars, sdVars>>

RestoreNext ==
    \/ Generate
    \/ StartRun
    \/ RestoreRow
    \/ FinishRun
    \/ AbortRun

(***************************************************************************)
(* add_categories_script.py                                                *)
(***************************************************************************)
\* Lines 17-108: the names of the seeded categories, in list order.
SeedNames ==
    <<"SOUPS", "BREADS", "KIDS MENU", "MAIN COURSE - NON VEG", "MAIN COURSE - VEG",
      "STARTER - NON VEG", "STARTER - VEG", "STARTER - HAKKA", "MOMOS (DUMPLINGS)",
      "SNACKS">>

\* Lines 14-110: create_categories() at time t.  Every id ends in the
\* millisecond timestamp of the call.
CreateCategories(t) ==
    [i \in 1..MaxSeed |->
        [id |-> "cat_" \o ToString(i) \o "_" \o ToString(t), name |-> SeedNames[i]]]

\* What the database file holds; the schema of the app database is not part
\* of the scripts.
\*   "no_table"     no categories table
\*   "id_key"       categories with id as its only key
\*   "unique_name"  categories with id as key and a UNIQUE name
\*   "other_columns" categories without one of the columns the insert names
SeedSchemas == {"no_table", "id_key", "unique_name", "other_columns"}

\* Line 240: response.lower().
Lower(r) ==
    CASE r = "Y" -> "y"
      [] r = "YES" -> "yes"
      [] r = "Yes" -> "yes"
      [] r = "N" -> "n"
      [] OTHER -> r
Responses == {"y", "Y", "YES", "n", "", "yes please"}

\* Mutant of Confirms: every answer but a plain no confirms.
ConfirmsMutant(r) == Lower(r) # "n"

\* Lines 239-240: the answer confirms the import.
Confirms(r) == Lower(r) \in {"y", "yes"}

SeedIdle ==
    /\ sdPc = "idle"
    /\ dbFileFound = FALSE
    /\ seedSchema = "no_table"
    /\ response = Unset
    /\ seedList = <<>>
    /\ seedIdx = 0
    /\ seedRows = {}
    /\ seedFile = {}
    /\ seedConn = "none"
    /\ seedConnects = 0
    /\ added = 0
    /\ seedResult = Unset
    /\ seedReport = Unset
    /\ seedRuns = 0
    /\ seedClock = 0

\* The database before the first run: no categories, or the categories of an
\* import made at time 0.
SeedInit ==
    /\ sdPc = "main"
    /\ dbFileFound \in BOOLEAN
    /\ seedSchema \in SeedSchemas
    /\ response = Unset
    /\ seedList = <<>>
    /\ seedIdx = 0
    /\ seedFile \in IF seedSchema \in {"id_key", "unique_name"}
                    THEN {{}, Range(CreateCategories(0))}
                    ELSE {{}}
    /\ seedRows = seedFile
    /\ seedConn = "none"
    /\ seedConnects = 0
    /\ added = 0
    /\ seedResult = Unset
    /\ seedReport = Unset
    /\ seedRuns = 0
    /\ seedClock = 0

\* Lines 136-151 under the schema: the INSERT raises sqlite3.IntegrityError
\* when the id, or a UNIQUE name, is already in the table, and
\* sqlite3.OperationalError when the table lacks a column.
InsertRaises(schema, tableRows, category) ==
    \/ schema = "other_columns"
    \/ \E r \in tableRows : r.id = category.id
    \/ schema = "unique_name" /\ \E r \in tableRows : r.name = category.name

\* Lines 218-232: find_database_file; without a file main returns, with one
\* it builds the category list.
FindDatabaseFile ==
    /\ sdPc = "main"
    /\ seedClock' = seedClock + 1
    /\ IF dbFileFound
       THEN /\ seedList' = CreateCategories(seedClock + 1)
            /\ sdPc' = "prompt"
            /\ UNCHANGED seedRuns
       ELSE /\ sdPc' = "ended"
            /\ seedRuns' = seedRuns + 1
            /\ UNCHANGED seedList
    /\ seedIdx' = 0
    /\ added' = 0
    /\ seedConn' = "none"
    /\ seedResult' = Unset
    /\ seedReport' = Unset
    /\ response' = Unset
    /\ UNCHANGED <<dbFileFound, seedSchema, seedRows, seedFile, seedConnects>>
    /\ UNCHANGED <<prVars, exVars, rsVars>>

\* Lines 239-242: the confirmation prompt.
ConfirmPrompt ==
    /\ sdPc = "prompt"
    /\ \E r \in Responses :
        /\ response' = r
        /\ IF Confirms(r)
           THEN sdPc' = "connect" /\ UNCHANGED seedRuns
           ELSE sdPc' = "ended" /\ seedRuns' = seedRuns + 1
    /\ UNCHANGED <<dbFileFound, seedSchema, seedList, seedIdx, seedRows, seedFile,
                   seedConn, seedConnects, added, seedResult, seedReport, seedClock>>
    /\ UNCHANGED <<prVars, exVars, rsVars>>

\* Lines 115-118 and 174-182: sqlite3.connect.  When it raises, the handler of
\* line 174 returns False and the finally clause then reads conn, which was
\* never assigned: UnboundLocalError leaves the function and main.
SeedConnect ==
    /\ sdPc = "connect"
    /\ seedConnects' = seedConnects + 1
    /\ \E ok \in BOOLEAN :
        IF ok
        THEN /\ seedConn' = "open"
             /\ sdPc' = "check_table"
             /\ UNCHANGED <<seedResult, seedRuns>>
        ELSE /\ seedResult' = "raised"
             /\ sdPc' = "ended"
             /\ seedRuns' = seedRuns + 1
             /\ UNCHANGED seedConn
    /\ UNCHANGED <<dbFileFound, seedSchema, response, seedList, seedIdx, seedRows,
                   seedFile, added, seedReport, seedClock>>
    /\ UNCHANGED <<prVars, exVars, rsVars>>

\* Lines 122-131 and 180-182: without a categories table return False; the
\* finally clause closes the connection.
CheckCategoriesTable ==
    /\ sdPc = "check_table"
    /\ IF seedSchema = "no_table"
       THEN /\ seedResult' = "False"
            /\ seedConn' = "closed"
            /\ sdPc' = "returned"
       ELSE /\ sdPc' = "loop"
            /\ UNCHANGED <<seedResult, seedConn>>
    /\ UNCHANGED <<dbFileFound, seedSchema, response, seedList, seedIdx, seedRows,
                   seedFile, seedConnects, added, seedReport, seedRuns, seedClock>>
    /\ UNCHANGED <<prVars, exVars, rsVars>>

\* Mutant of SeedInsert: an insert that raises ends the run.
SeedInsertMutant ==
    /\ sdPc = "loop"
    /\ seedIdx < Len(seedList)
    /\ LET category == seedList[seedIdx + 1]
       IN  IF InsertRaises(seedSchema, seedRows, category)
           THEN /\ seedResult' = "False"
                /\ seedConn' = "closed"
                /\ sdPc' = "returned"
                /\ seedRows' = seedFile
                /\ UNCHANGED <<seedIdx, added>>
           ELSE /\ seedRows' = seedRows \cup {category}
                /\ added' = added + 1
                /\ seedIdx' = seedIdx + 1
                /\ UNCHANGED <<sdPc, seedResult, seedConn>>
    /\ UNCHANGED <<dbFileFound, seedSchema, response, seedList, seedFile,
                   seedConnects, seedReport, seedRuns, seedClock>>
    /\ UNCHANGED <<prVars, exVars, rsVars>>

\* Lines 134-161: one iteration of the insert loop; an insert that raises is
\* caught and printed.
SeedInsert ==
    /\ sdPc = "loop"
    /\ seedIdx < Len(seedList)
    /\ seedIdx' = seedIdx + 1
    /\ LET category == seedList[seedIdx + 1]
       IN  IF InsertRaises(seedSchema, seedRows, category)
           THEN UNCHANGED <<seedRows, added>>
           ELSE /\ seedRows' = seedRows \cup {category}
                /\ added' = added + 1
    /\ UNCHANGED <<sdPc, dbFileFound, seedSchema, response, seedList, seedFile,
                   seedConn, seedConnects, seedResult, seedReport, seedRuns,
                   seedClock>>
    /\ UNCHANGED <<prVars, exVars, rsVars>>

\* Lines 163-182: commit, print the summary, return True; a commit that raises
\* goes to the handler of line 174, which returns False.  The finally clause
\* closes the connection either way.
SeedCommit ==
    /\ sdPc = "loop"
    /\ seedIdx = Len(seedList)
    /\ \E commitRaises \in BOOLEAN :
        IF commitRaises
        THEN /\ seedResult' = "False"
             /\ seedRows' = seedFile
             /\ UNCHANGED seedFile
        ELSE /\ seedResult' = "True"
             /\ seedFile' = seedRows
             /\ UNCHANGED seedRows
    /\ seedConn' = "closed"
    /\ sdPc' = "returned"
    /\ UNCHANGED <<dbFileFound, seedSchema, response, seedList, seedIdx,
                   seedConnects, added, seedReport, seedRuns, seedClock>>
    /\ UNCHANGED <<prVars, exVars, rsVars>>

\* Lines 246-257: main reports the result of add_categories_to_database.
SeedReport ==
    /\ sdPc = "returned"
    /\ seedReport' = IF seedResult = "True" THEN "success" ELSE "failed"
    /\ sdPc' = "ended"
    /\ seedRuns' = seedRuns + 1
    /\ UNCHANGED <<dbFileFound, seedSchema, response, seedList, seedIdx, seedRows,
                   seedFile, seedConn, seedConnects, added, seedResult, seedClock>>
    /\ UNCHANGED <<prVars, exVars, rsVars>>

\* The operator runs the script again.
SeedAgain ==
    /\ sdPc = "ended"
    /\ seedRuns < MaxSeedRuns
    /\ sdPc' = "main"
    /\ UNCHANGED <<dbFileFound, seedSchema, response, seedList, seedIdx, seedRows,
                   seedFile, seedConn, seedConnects, added, seedResult, seedReport,
                   seedRuns, seedClock>>
    /\ UNCHANGED <<prVars, exVars, rsVars>>

SeedNext ==
    \/ FindDatabaseFile
    \/ ConfirmPrompt
    \/ SeedConnect
    \/ CheckCategoriesTable
    \/ SeedInsert
    \/ SeedCommit
    \/ SeedReport
    \/ SeedAgain

(***************************************************************************)
(* Specifications: one per script.                                         *)
(***************************************************************************)
InitPrune == PruneInit /\ ExtractIdle /\ RestoreIdle /\ SeedIdle
SpecPrune == InitPrune /\ [][PruneNext]_vars

InitExtract == ExtractInit /\ PruneIdle /\ RestoreIdle /\ SeedIdle
SpecExtract == InitExtract /\ [][ExtractNext]_vars

InitRestore == RestoreInit /\ PruneIdle /\ ExtractIdle /\ SeedIdle
SpecRestore == InitRestore /\ [][RestoreNext]_vars

InitSeed == SeedInit /\ PruneIdle /\ ExtractIdle /\ RestoreIdle
SpecSeed == InitSeed /\ [][SeedNext]_vars

\* The scripts with an insert loop: a generated restore script or the seeding
\* script.
InitInserts == InitRestore \/ InitSeed
InsertsNext == RestoreNext \/ SeedNext
SpecInserts == InitInserts /\ [][InsertsNext]_vars

(***************************************************************************)
(* Claims about clear_firebase_menu.py                                     *)
(***************************************************************************)
\* The store satisfies the pruning invariant for keep-list K: every category
\* document carries a name of K, every item's categoryId is the id of a
\* category document of the store.
PruningInvariant(K) ==
    /\ \A c \in DOMAIN catStore : catStore[c] \in K
    /\ \A i \in DOMAIN itemStore : itemStore[i] \in DOMAIN catStore

\* clear_firebase_menu got as far as its cleanup block (tenant found,
\* categories listed) and has returned, and the store rejected no delete.
CleanupReturned ==
    prPc \in {"returned", "exited"} /\ storeReads >= 2 /\ storeRejects = 0

\* C1: after the pruning flow has run its cleanup with keep-list K and has
\* returned, every remaining category document has a name in K and every
\* remaining item document's categoryId is the id of a remaining category.
C1_PruningInvariantAfterRun ==
    CleanupReturned => PruningInvariant(ParsedKeep(args))

\* C2: invoked without --confirm, the script makes no read and no delete
\* against the store, goes nowhere but to its exit, and exits non-zero,
\* whatever --tenant and --keep are.
C2_NoConfirmNoStoreAccess ==
    ~args.confirm =>
        /\ storeReads = 0
        /\ storeDeletes = 0
        /\ prPc \in {"main", "exited"}
        /\ prPc = "exited" => exitStatus \in {1, 2}

\* C2 witness: a run with a tenant, a non-empty store and no --confirm has
\* exited with status 1.
C2_Witness ==
    /\ ~args.confirm
    /\ args.tenant # Missing
    /\ DOMAIN catStore # {}
    /\ DOMAIN itemStore # {}
    /\ prPc = "exited"
    /\ exitStatus = 1

(***************************************************************************)
(* Claims about the extraction loop                                        *)
(***************************************************************************)
\* The manifest file of the run has been written.
ManifestWritten == ManifestName \in Range(written)

IsErrorEntry(e) == "error" \in DOMAIN e
IsSnapshotEntry(e) == "columns" \in DOMAIN e

\* The entries of a manifest d, for the source tables read so far, agree with
\* the row counts of the source.
CountsAgree(d) ==
    /\ \A i \in 1..tableIdx :
        LET t == srcTables[i]
        IN  /\ t.name \in DOMAIN d
            /\ t.raises = NoError =>
                /\ IsSnapshotEntry(d[t.name])
                /\ d[t.name].count = Len(t.rows)
                /\ Len(d[t.name].data) = d[t.name].count
    /\ \A n \in DOMAIN d :
        /\ IsErrorEntry(d[n]) => d[n].data = <<>> /\ d[n].count = 0
        /\ ~(IsErrorEntry(d[n]) /\ IsSnapshotEntry(d[n]))

\* C6: for every table read successfully with N rows the manifest entry has
\* count = N and len(data) = count; every error entry has data = [] and
\* count = 0; no entry carries both columns and error.  It holds of the
\* manifest while it is built and of the manifest file once written.
C6_CountsMatchRows ==
    /\ CountsAgree(extracted_data)
    /\ ManifestWritten => CountsAgree(manifestFile)

\* C6 witness: the manifest file is written with a two-row table and an error
\* entry.
C6_Witness ==
    /\ ManifestWritten
    /\ \E n \in DOMAIN manifestFile :
        IsSnapshotEntry(manifestFile[n]) /\ manifestFile[n].count = 2
    /\ \E n \in DOMAIN manifestFile : IsErrorEntry(manifestFile[n])

\* C7: a table whose read raises appears in the manifest as {error: <non-empty
\* string>, data: [], count: 0}; every other table is still captured with its
\* rows, wherever the failing table stands in the table list; once the tables
\* are listed the run does not leave the loop before every table has its entry.
C7_ErrorEntryAndOthersCaptured ==
    /\ \A i \in 1..tableIdx :
        LET t == srcTables[i]
            e == extracted_data[t.name]
        IN  IF t.raises # NoError
            THEN /\ DOMAIN e = {"error", "data", "count"}
                 /\ e.error = t.raises /\ e.error # ""
                 /\ e.data = <<>> /\ e.count = 0
            ELSE /\ DOMAIN e = {"columns", "data", "count"}
                 /\ e.columns = t.columns
                 /\ Len(e.data) = Len(t.rows)
                 /\ \A r \in 1..Len(t.rows) : \A c \in 1..Len(t.columns) :
                        e.data[r][t.columns[c]] = t.rows[r][c]
    /\ (Len(tables) > 0 /\ tableIdx < Len(tables)) => exPc = "loop"
    /\ ManifestWritten =>
        /\ tableIdx = Len(srcTables)
        /\ DOMAIN manifestFile = {srcTables[i].name : i \in 1..Len(srcTables)}

\* C7 witness: the first table failed to read, a later table was captured
\* with its rows, and the manifest is written.
C7_Witness ==
    /\ ManifestWritten
    /\ Len(srcTables) >= 2
    /\ srcTables[1].raises # NoError
    /\ IsErrorEntry(manifestFile[srcTables[1].name])
    /\ IsSnapshotEntry(manifestFile[srcTables[2].name])
    /\ manifestFile[srcTables[2].name].count >= 1

(***************************************************************************)
(* Claims about the generator and the restore scripts                      *)
(***************************************************************************)
RowsOf(db) == {db[k] : k \in DOMAIN db}
CountOf(db, r) == Cardinality({k \in DOMAIN db : db[k] = r})
\* Two states of the destination table hold the same rows, as often.
SameRows(d1, d2) == \A r \in RowsOf(d1) \cup RowsOf(d2) : CountOf(d1, r) = CountOf(d2, r)

\* destHistory[1] is the destination before the first run, destHistory[n + 1]
\* the destination after run n.
AfterRun(n) == destHistory[n + 1]
\* Every run so far that connected went on to its commit.
NoRunInterrupted == interrupted = 0
PerTableScript == generator.script \in {"categories", "menu_items"}

\* C3: round trip.  After a generated script (categories, comprehensive) has
\* run once against an empty destination, every captured row is in the
\* destination under its id with every captured field equal to the captured
\* value, null included.
C3_RoundTrip ==
    (/\ runs >= 1
     /\ NoRunInterrupted
     /\ destHistory[1] = <<>>
     /\ generator.script \in {"categories", "all"})
    => \A i \in 1..Len(captured.data) :
        LET r == captured.data[i]
        IN  "id" \in DOMAIN r =>
                \E k \in DOMAIN AfterRun(1) :
                    LET d == AfterRun(1)[k]
                    IN  /\ d.id = r.id
                        /\ \A c \in DOMAIN r \cap DOMAIN d : d[c] = r[c]

\* C4 as stated: executing a generated script twice leaves the same rows as
\* executing it once, for every captured row set.
C4_Idempotent ==
    NoRunInterrupted =>
        \A n \in 1..(runs - 1) : SameRows(AfterRun(n), AfterRun(n + 1))

\* Every captured row carries an id and, for the per-table scripts, created_at
\* and updated_at (possibly null).
RowsCarryKeys ==
    \A i \in 1..Len(captured.data) :
        LET r == captured.data[i]
        IN  /\ "id" \in DOMAIN r
            /\ PerTableScript => {"created_at", "updated_at"} \subseteq DOMAIN r

\* C4 amended: executing a generated script again leaves the same rows as the
\* execution before it, provided every captured row carries an id and, for the
\* categories and menu-items scripts, created_at and updated_at.
C4_IdempotentWithKeys ==
    (NoRunInterrupted /\ RowsCarryKeys) =>
        \A n \in 1..(runs - 1) : SameRows(AfterRun(n), AfterRun(n + 1))

\* C4 witness: the categories script ran twice over rows that carry id,
\* created_at and updated_at, and both runs executed statements.
C4_Witness ==
    /\ runs >= 2
    /\ NoRunInterrupted
    /\ generator.script = "categories"
    /\ RowsCarryKeys
    /\ Len(captured.data) >= 1
    /\ Len(executed) = Len(captured.data)
    /\ AfterRun(1) # destHistory[1]

\* C5: a run of a per-table script (categories, menu_items) executes exactly
\* one insert-or-replace statement per captured row, keyed by the row's id,
\* also when a captured row holds null.
C5_OneStatementPerRow ==
    (runs >= 1 /\ NoRunInterrupted /\ rsPc = "ready" /\ PerTableScript) =>
        /\ Len(executed) = Len(captured.data)
        /\ \A i \in 1..Len(executed) :
            /\ executed[i].row = i
            /\ "id" \in DOMAIN captured.data[i] =>
                   executed[i].values.id = captured.data[i].id

\* A script without its "Generated on:" line.
WithoutTimestamp(script) == [script EXCEPT !.generated_on = "-"]

C9_ThreeFieldCategory ==
    (/\ generator.script = "categories"
     /\ runs >= 1
     /\ NoRunInterrupted
     /\ destHistory[1] = <<>>
     /\ Len(captured.data) = 1
     /\ DOMAIN captured.data[1] = {"id", "name", "sort_order"})
    => LET r == captured.data[1]
           d == AfterRun(1)
       IN  /\ Cardinality(DOMAIN d) = 1
           /\ \A k \in DOMAIN d :
                /\ d[k].id = r.id
                /\ d[k].name = r.name
                /\ d[k].sort_order = r.sort_order
                /\ d[k].color = "#FF6B6B"
                /\ d[k].icon = "icon_plate"
                /\ d[k].is_active = "1"
                /\ d[k].created_at \in {Now(t) : t \in 1..clock}
                /\ d[k].updated_at \in {Now(t) : t \in 1..clock}

AuditFields == {"created_at", "updated_at"}
NumberFields ==
    {"sort_order", "is_active", "preparation_time", "is_vegetarian", "is_vegan",
     "is_gluten_free", "is_spicy", "spice_level", "stock_quantity",
     "low_stock_threshold"}

\* The id of statement e is a fresh identifier: a uuid that no other statement
\* of the run got and that no row of the destination had when the run began.
FreshId(e) ==
    /\ e.values.id \in {Uuid(n) : n \in 1..uuidCount}
    /\ \A i \in 1..Len(executed) :
        executed[i].row # e.row => executed[i].values.id # e.values.id
    /\ rsPc = "running" =>
        \A k \in DOMAIN destHistory[Len(destHistory)] :
            destHistory[Len(destHistory)][k].id # e.values.id

\* The fallback the claim gives to an absent field.
ClaimedFallbackHolds(e, f) ==
    IF f = "id" THEN FreshId(e)
    ELSE IF f \in AuditFields THEN e.values[f] = e.now
    ELSE IF f \in NumberFields THEN e.values[f] = "0"
    ELSE IF f = "price" THEN e.values[f] = "0.0"
    ELSE e.values[f] = ""

\* The fallbacks of the insert statements.
CodeFallbackHolds(e, f) ==
    IF f = "id" THEN FreshId(e)
    ELSE IF f \in AuditFields THEN e.values[f] = e.now
    ELSE e.values[f] =
        CASE f \in {"name", "description", "category_id"} -> ""
          [] f \in {"sort_order", "is_vegetarian", "is_vegan", "is_gluten_free",
                    "is_spicy", "spice_level"} -> "0"
          [] f = "color" -> "#FF6B6B"
          [] f = "icon" -> "icon_plate"
          [] f = "is_active" -> "1"
          [] f = "price" -> "0.0"
          [] f \in {"preparation_time", "low_stock_threshold"} -> "10"
          [] f = "stock_quantity" -> "100"
          [] f \in {"tags", "variants", "modifiers"} -> "[]"
          [] f \in {"custom_properties", "nutritional_info", "allergens"} -> "{}"

\* C10 as stated: a field absent from the captured row is bound to the empty
\* string if it is text, to 0 if it is a boolean or an integer, to the current
\* timestamp for created_at/updated_at and to a fresh identifier for id.
C10_ClaimedFallbacks ==
    PerTableScript =>
        \A i \in 1..Len(executed) :
            LET e == executed[i]
            IN  \A f \in DOMAIN e.values \ DOMAIN captured.data[e.row] :
                    ClaimedFallbackHolds(e, f)

\* C10 amended: a field absent from the captured row is bound to '' for name,
\* description and category_id; 0 for sort_order, is_vegetarian, is_vegan,
\* is_gluten_free, is_spicy and spice_level; 0.0 for price; '#FF6B6B' for
\* color; the plate icon for icon; 1 for is_active; 10 for preparation_time
\* and low_stock_threshold; 100 for stock_quantity; the JSON text [] for tags,
\* variants and modifiers and {} for custom_properties, nutritional_info and
\* allergens; the current timestamp for created_at and updated_at; a fresh
\* random identifier for id.
C10_CodeFallbacks ==
    PerTableScript =>
        \A i \in 1..Len(executed) :
            LET e == executed[i]
            IN  \A f \in DOMAIN e.values \ DOMAIN captured.data[e.row] :
                    CodeFallbackHolds(e, f)

\* C10 witness: the categories script executed the statement of a row without
\* id, color and is_active, and the menu-items script one of a row without
\* tags (second disjunct).
C10_Witness ==
    /\ Len(executed) >= 1
    /\ \/ /\ generator.script = "categories"
          /\ {"id", "color", "is_active", "created_at"}
                \cap DOMAIN captured.data[executed[1].row] = {}
       \/ /\ generator.script = "menu_items"
          /\ {"id", "tags", "stock_quantity"}
                \cap DOMAIN captured.data[executed[1].row] = {}

(***************************************************************************)
(* Further claims about the pruning flow                                   *)
(***************************************************************************)
\* A step in which a delete call raises: the flow is in one of its delete
\* loops and the step records the failure.
DeleteRaises ==
    /\ prPc \in {"delete_items", "orphans"}
    /\ success = Unset
    /\ success' = "False"

\* C11: a single document delete that raises is caught and skipped: the step
\* in which it raises leaves the flow in its delete loops, so that the
\* remaining deletions are still performed.
C11_DeleteFailureSkipped ==
    [][DeleteRaises => prPc' \in {"delete_loop", "delete_items", "orphans"}]_vars

\* The keep-list of a run: the names given with --keep or, with none given,
\* Snacks and Receipts.
KeepList == IF args.keepGiven THEN args.keep ELSE {"Snacks", "Receipts"}
InsideCleanup ==
    prPc \in {"connect", "tenant", "fetch", "delete_loop", "delete_items",
              "orphans", "returned"}

\* C16: no step of the pruning flow deletes a category document whose name is
\* in the keep-list, nor an item document whose categoryId is the id of such a
\* category; with no --keep given the flow works with exactly
\* {"Snacks", "Receipts"}.
C16_KeptDocumentsStay ==
    [][/\ \A c \in DOMAIN catStore :
            catStore[c] \in KeepList => c \in DOMAIN catStore'
       /\ \A i \in DOMAIN itemStore :
            (/\ itemStore[i] \in DOMAIN catStore
             /\ catStore[itemStore[i]] \in KeepList) => i \in DOMAIN itemStore'
       /\ (InsideCleanup /\ ~args.keepGiven) =>
            keep_categories = {"Snacks", "Receipts"}]_vars

\* C16 witness: a run without --keep deleted a category and returned True
\* with a kept category and an item of it still in the store.
C16_Witness ==
    /\ prPc = "returned" /\ success = "True"
    /\ ~args.keepGiven
    /\ deleted_categories >= 1
    /\ \E i \in DOMAIN itemStore :
        /\ itemStore[i] \in DOMAIN catStore
        /\ catStore[itemStore[i]] \in KeepList

RECURSIVE ApplyAll(_, _, _)
\* The destination after the statements stmts, in order, on db.
ApplyAll(db, stmts, rowid) ==
    IF stmts = <<>> THEN db
    ELSE ApplyAll(InsertOrReplace(db, Head(stmts).values, rowid), Tail(stmts),
                  rowid + 1)

\* The last run has ended; the destination file before it, and what the
\* statements it executed make of that.
RunEnded == rsPc = "ready" /\ runs >= 1
BeforeLastRun == destHistory[Len(destHistory) - 1]
EffectOfExecuted == ApplyAll(BeforeLastRun, executed, nextRowid - Len(executed))

\* A step of a row loop in which the insert raised: the row is counted as
\* processed and no statement took effect.
RestoreInsertRaised ==
    rsPc = "running" /\ rowIdx' = rowIdx + 1 /\ executed' = executed
SeedInsertRaised ==
    sdPc = "loop" /\ seedResult = Unset /\ added' = added
        /\ (seedIdx' = seedIdx + 1 \/ seedResult' # Unset)
        /\ seedIdx < Len(seedList)

\* C12: in the seeding script and in the generated restore scripts an insert
\* that raises is caught and skipped (the loop goes on, the table is as
\* before); a run that reaches its end has attempted every record, and what
\* its successful inserts wrote is what the commit leaves in the file.
C12_InsertFailureSkipped ==
    /\ [][/\ RestoreInsertRaised => (rsPc' = "running" /\ dest' = dest)
          /\ SeedInsertRaised => (sdPc' = "loop" /\ seedRows' = seedRows)]_vars
    /\ [](/\ (RunEnded /\ outcome = "completed") =>
                /\ rowIdx = Len(rowList)
                /\ destFile = dest
                /\ SameRows(destFile, EffectOfExecuted)
          /\ seedResult = "True" =>
                /\ seedIdx = Len(seedList)
                /\ seedFile = seedRows
                /\ Cardinality({i \in 1..Len(seedList) : seedList[i] \in seedFile})
                        = added)

\* C12 witness: a restore run skipped its first row, whose statement raised,
\* executed the statement of the second row and committed it.
C12_Witness ==
    /\ RunEnded /\ outcome = "completed"
    /\ Len(rowList) = 2
    /\ Len(executed) = 1
    /\ executed[1].row = 2
    /\ executed[1].values \in RowsOf(destFile)

\* A run that connected ended without reaching the end of its commit.
RunInterrupted == RunEnded /\ outcome \in {"aborted", "error"}

\* C13 as stated: when a restore run stops part-way after k statements have
\* completed, the destination database holds the effect of exactly those k
\* statements.
C13_PartialEffectKept ==
    RunInterrupted => SameRows(destFile, EffectOfExecuted)

\* C13 amended: when a restore run stops before its commit has completed, the
\* destination database file holds exactly what it held before the run (the
\* statements of the run are one uncommitted transaction, which is
\* discarded); only a run that commits leaves the effect of its statements.
C13_UncommittedDiscarded ==
    /\ RunInterrupted => destFile = BeforeLastRun
    /\ (RunEnded /\ outcome = "completed") => SameRows(destFile, EffectOfExecuted)

\* C13 witness: a run was stopped after one statement had completed, with a
\* further row to go, on an empty destination.
C13_Witness ==
    /\ RunEnded /\ outcome = "aborted"
    /\ Len(executed) = 1
    /\ rowIdx < Len(rowList)
    /\ BeforeLastRun = <<>>

(***************************************************************************)
(* Claims about the extraction stages                                      *)
(***************************************************************************)
\* C20: every row mapping of a table that was read has exactly the snapshot's
\* column names as keys, in column order, and the value under the i-th column
\* name is the i-th element of the row tuple SELECT * returned.
C20_RowMappingByPosition ==
    \A i \in 1..tableIdx :
        LET t == srcTables[i]
            e == extracted_data[t.name]
        IN  t.raises = NoError =>
                \A r \in 1..Len(t.rows) :
                    /\ DOMAIN e.data[r] = Range(e.columns)
                    /\ DictKeys(e.columns, t.rows[r]) = e.columns
                    /\ \A c \in 1..Len(e.columns) :
                            e.data[r][e.columns[c]] = t.rows[r][c]

\* C20 witness: a table whose row tuple is longer than its column list was
\* read; the second column name carries the second element of the tuple.
C20_Witness ==
    \E i \in 1..tableIdx :
        LET t == srcTables[i]
            e == extracted_data[t.name]
        IN  /\ t.raises = NoError
            /\ t.rows = <<GeneratedRow>>
            /\ e.count = 1
            /\ e.data[1][e.columns[2]] = GeneratedRow[2]

ExtractionEnded == exPc \in {"returned", "exited"}
SeedingEnded == sdPc \in {"returned", "main", "ended"}

\* C14: every extraction, seeding and restore run that has ended has closed
\* the database connection it opened, also when an error was raised after
\* the connection was opened.
C14_ConnectionClosedOnExit ==
    /\ ExtractionEnded => exConn # "open"
    /\ SeedingEnded => seedConn # "open"
    /\ RunEnded => rsConn # "open"

\* The source database cannot be had: the backup file does not exist, or the
\* tablet delivers none of the pull candidates.
SourceUnavailable ==
    \/ variant = "extract_from_backup" /\ exPc # "idle" /\ ~srcExists
    \/ variant \in DeviceVariants /\ device = {}

FailureReport == "Backup failed. Please check the error messages above."

\* C15: if the source database file does not exist, or every device-pull
\* candidate fails, the run opens no connection and writes no manifest, no
\* restore script and no README; it ends only after every candidate was
\* tried, returns False, and main reports the failure.
C15_NoSourceNothingWritten ==
    SourceUnavailable =>
        /\ written = <<>> /\ readme = <<>> /\ summary = <<>>
        /\ exConn = "none"
        /\ exPc \in {"start", "returned", "exited"}
        /\ ExtractionEnded =>
            /\ exResult = "False"
            /\ variant \in DeviceVariants => candIdx = NumCandidates
        /\ exPc = "exited" => exReport = FailureReport

\* C15 witness: every one of the pull candidates failed and main has reported
\* the failure.
C15_Witness ==
    /\ variant \in DeviceVariants
    /\ device = {}
    /\ candIdx = NumCandidates
    /\ exPc = "exited"
    /\ exReport = FailureReport
    /\ written = <<>>

\* The files of a backup directory in the order of the stages that write
\* them, and the positions of a run in the order of its stages.
FileOrder == <<ManifestName, CategoriesScript, MenuItemsScript, RestoreAllScript,
               ReadmeName>>
FileRank(f) == CHOOSE i \in 1..Len(FileOrder) : FileOrder[i] = f
StageOrder == <<"idle", "start", "connect", "loop", "saved", "scripts", "readme",
                "returned", "exited">>
StageRank(pc) == CHOOSE i \in 1..Len(StageOrder) : StageOrder[i] = pc

RECURSIVE RowsCaptured(_, _)
RowsCaptured(manifest, names) ==
    IF names = {}
    THEN 0
    ELSE LET n == CHOOSE x \in names : TRUE
         IN  (IF IsErrorEntry(manifest[n]) THEN 0 ELSE manifest[n].count)
             + RowsCaptured(manifest, names \ {n})

ErroredTables(manifest) == {n \in DOMAIN manifest : IsErrorEntry(manifest[n])}

\* Every table of the manifest has exactly one README line, which gives the
\* table's error text or its record count.
OneLinePerTable(manifest) ==
    /\ Len(readme) = Cardinality(DOMAIN manifest)
    /\ \A n \in DOMAIN manifest :
        \E i \in 1..Len(readme) :
            /\ readme[i].table = n
            /\ \A j \in 1..Len(readme) : readme[j].table = n => j = i
            /\ IF IsErrorEntry(manifest[n])
               THEN readme[i].error = manifest[n].error
               ELSE readme[i].error = NoError /\ readme[i].count = manifest[n].count

SummaryPrinted == exResult = "True"

IndexIn(seq, x) == CHOOSE i \in 1..Len(seq) : seq[i] = x
PullStep == candIdx' = candIdx + 1

\* The pull made by a step follows the one before it in the order file name
\* major, location minor.
NextInPullOrder ==
    LET nf == IndexIn(DbFiles, lastPull'.file)
        nl == IndexIn(Locations, lastPull'.location)
    IN  IF candIdx = 0
        THEN nf = 1 /\ nl = 1
        ELSE LET pf == IndexIn(DbFiles, lastPull.file)
                 pl == IndexIn(Locations, lastPull.location)
             IN  \/ nf = pf /\ nl = pl + 1
                 \/ nf = pf + 1 /\ nl = 1 /\ pl = Len(Locations)

\* C21: the pulls are tried in the order file name major, location minor; a
\* pull that fails, times out or raises is followed by the next candidate
\* and does not end the run while candidates remain; the first pull that
\* succeeds gives the database path and no pull is made after it; the stage
\* ends with failure only after all 16 candidates were tried.
C21_PullOrderFirstSuccess ==
    /\ [][/\ PullStep =>
              /\ exPc = "start"
              /\ NextInPullOrder
              /\ IF lastPull'.result = "pulled"
                 THEN exPc' = "connect" /\ db_path' = lastPull'.file
                 ELSE exPc' = "start" /\ db_path' = NoPath /\ exResult' = Unset
          /\ exPc # "start" => candIdx' = candIdx /\ lastPull' = lastPull]_vars
    /\ [](variant \in DeviceVariants =>
            /\ \A k \in 1..candIdx : k \in device => k = candIdx
            /\ (exPc \notin {"idle", "start"} /\ db_path # NoPath) =>
                    candIdx \in device /\ lastPull.result = "pulled"
            /\ (ExtractionEnded /\ db_path = NoPath) =>
                    /\ candIdx = 16
                    /\ exResult = "False"
                    /\ lastPull.result \in {"failed", "timeout", "raised"})

\* C21 witness: six pulls failed, the seventh (second file name, third
\* location) succeeded although a later candidate would succeed too, and the
\* run read that file and returned True.
C21_Witness ==
    /\ variant \in DeviceVariants
    /\ device = {7, 12}
    /\ candIdx = 7
    /\ db_path = DbFiles[2]
    /\ lastPull.location = Locations[3]
    /\ exResult = "True"

\* The manifest of a source database: the entry of every table.
ManifestOf(db) ==
    [n \in {db[i].name : i \in 1..Len(db)} |->
        TableEntry(db[CHOOSE i \in 1..Len(db) : db[i].name = n])]

ScriptsStageDone == ReadmeName \in Range(written) \/ exPc = "scripts"

\* C23: in every variant the categories restore script is written exactly
\* when the manifest has a categories entry that is not an error entry; a
\* categories table whose read failed yields no restore script.
C23_CategoriesScriptIffReadable ==
    LET readable == /\ "categories" \in DOMAIN extracted_data
                    /\ ~IsErrorEntry(extracted_data["categories"])
    IN  /\ CategoriesScript \in Range(written) => readable
        /\ (ScriptsStageDone /\ readable) => CategoriesScript \in Range(written)

(***************************************************************************)
(* Claims about the comprehensive restore script                           *)
(***************************************************************************)
\* A run of the comprehensive script whose table loop came to its end.
ComprehensiveRunDone ==
    /\ generator.script = "all"
    /\ RunEnded
    /\ outcome \in {"completed", "error"}

C24_SkipWitness ==
    /\ ComprehensiveRunDone
    /\ IsErrorEntry(captured)
    /\ outcome = "completed"

(***************************************************************************)
(* Claims about the failure paths of the pruning and seeding scripts       *)
(***************************************************************************)
BeforeCleanup == prPc \in {"idle", "main", "connect", "tenant"}
StoreUntouched == catStore' = catStore /\ itemStore' = itemStore

\* C25: if the store client cannot be obtained, or the tenant check raises,
\* or the tenant document does not exist, clear_firebase_menu returns False
\* and no category or item document has been deleted: nothing is deleted
\* before the tenant check has passed, a run that leaves the connect or the
\* tenant step without passing it returns False, and without the tenant
\* document the run never gets past the check.
C25_NoTenantNoDelete ==
    /\ [][/\ (prPc \in {"connect", "tenant"} /\ prPc' \notin {"tenant", "fetch"}) =>
                prPc' = "returned" /\ success' = "False"
          /\ (BeforeCleanup \/ ~tenantExists) => StoreUntouched
          /\ (prPc' = "fetch" /\ prPc # "fetch") => tenantExists]_vars
    /\ [](/\ BeforeCleanup =>
                storeDeletes = 0 /\ deleted_categories = 0 /\ deleted_menu_items = 0
          /\ (~tenantExists /\ storeReads >= 1) =>
                /\ prPc \in {"returned", "exited"}
                /\ success = "False"
                /\ storeDeletes = 0
                /\ prPc = "exited" => exitStatus = 1)

\* C25 witness: the run was confirmed, the client was obtained, the tenant
\* document does not exist although categories to delete are stored under
\* it; the function returned False and main exited with status 1.
C25_Witness ==
    /\ prPc = "exited"
    /\ args.confirm
    /\ ~tenantExists
    /\ storeReads = 1
    /\ success = "False"
    /\ exitStatus = 1
    /\ \E c \in DOMAIN catStore : catStore[c] \notin ParsedKeep(args)

\* C26: add_categories_to_database returns False and never raises on a
\* database error, a failure to open the connection included: a call that
\* has ended has returned True or False.
C26_ReturnsNeverRaises ==
    /\ seedResult # "raised"
    /\ sdPc = "returned" => seedResult \in {"True", "False"}

\* C27: add_categories_to_database returns True, and main reports a
\* successful import, only if categories were inserted: a run in which every
\* insert failed is not reported as a success.
C27_SuccessMeansInserted ==
    /\ (sdPc \in {"returned", "ended"} /\ seedResult = "True" /\ Len(seedList) > 0) =>
            added >= 1
    /\ (sdPc = "ended" /\ seedReport = "success" /\ Len(seedList) > 0) => added >= 1

\* C28: running the seeding script again against a database that holds the
\* seeded categories adds no row: after any number of runs every category
\* name in the table occurs in exactly one row.
C28_OneRowPerName ==
    \A r1, r2 \in seedFile : r1.name = r2.name => r1 = r2

\* The answers that confirm the import.
ConfirmingAnswers == {"y", "Y", "yes", "YES", "Yes", "yEs", "yeS", "YEs", "yES", "YeS"}

\* C29: when no database file is found, or the answer to the prompt is not
\* 'y' or 'yes' in any letter case, the run ends without opening a
\* connection and without writing a row; a connection is opened only in a
\* run that found the file and was confirmed.
C29_NoConfirmNoConnection ==
    /\ [][((sdPc = "main" /\ ~dbFileFound)
            \/ (sdPc = "prompt" /\ response' \notin ConfirmingAnswers)) =>
                /\ sdPc' = "ended"
                /\ seedConn' = "none"
                /\ seedConnects' = seedConnects
                /\ seedFile' = seedFile /\ seedRows' = seedRows]_vars
    /\ [](/\ sdPc \in {"connect", "check_table", "loop", "returned"} =>
                dbFileFound /\ response \in ConfirmingAnswers
          /\ seedConn # "none" => dbFileFound /\ response \in ConfirmingAnswers
          /\ ~dbFileFound => seedConnects = 0)

\* C29 witness: the operator answered "yes please"; the run ended with no
\* connection made although the database file was there.
C29_Witness ==
    /\ sdPc = "ended"
    /\ dbFileFound
    /\ response = "yes please"
    /\ seedConnects = 0
    /\ seedConn = "none"
    /\ seedRuns = 1

====
